---- MODULE Spec2Model ----
(***************************************************************************)
(* Verification model of the JUDO / ZEWA leak guard protocol clients.      *)
(*                                                                         *)
(*   Spec     the retry/transport engine: ZewaClient._request and          *)
(*            JudoClient._rest_request / _fetch_json, with concurrent      *)
(*            callers sharing one client and its single-flight gate.       *)
(*   SpecAgg  the aggregator: JudoLeakguardApi.fetch_all and               *)
(*            _collect_rest_data, one poll cycle after the other.          *)
(***************************************************************************)
EXTENDS Integers, Sequences, FiniteSets, TLC

VARIABLES
    client,      \* which client class the shared instance is: "zewa" | "judo"
    holders,     \* callers inside "async with" _semaphore / _request_lock
    waiters,     \* callers blocked on the gate, in arrival order
    active,      \* HTTP response contexts entered and not yet exited
    req,         \* per caller: the frame of its logical request (RetryState)
    max_attempts, \* the max_attempts argument the ZewaClient was built with
    agg,         \* the aggregator's frame for the current poll cycle
    session,     \* the aiohttp.ClientSession of the client: who owns it, closed?
    cmd          \* the frame of a public command method called on the client

vars == <<client, holders, waiters, active, req, max_attempts, agg, session, cmd>>

----------------------------------------------------------------------------
(* Bounds of the model *)

NumCallers == 2

Callers == 1..NumCallers

----------------------------------------------------------------------------
(* Program constants *)

ZewaMaxAttempts == 4

ZewaInitialBackoff == 2

ZewaMaxBackoff == 30

JudoMaxAttempts == 5

JudoInitialRetryDelay == 2

JudoMaxRetryDelay == 30

Methods(cl) == IF cl = "zewa" THEN {"_request"} ELSE {"_rest_request", "_fetch_json"}

\* budgets a ZewaClient is built with: the tests' 2, the default, and one long
\* enough for the backoff to reach its cap
ZewaAttemptBudgets == {2, ZewaMaxAttempts, 6}

MaxAttempts(m) == IF m = "_request" THEN max_attempts ELSE JudoMaxAttempts

InitialDelay(m) == IF m = "_request" THEN ZewaInitialBackoff ELSE JudoInitialRetryDelay

MaxDelay(m) == IF m = "_request" THEN ZewaMaxBackoff ELSE JudoMaxRetryDelay

Max2(a, b) == IF a >= b THEN a ELSE b

Min2(a, b) == IF a <= b THEN a ELSE b

----------------------------------------------------------------------------
(* What the device (or the network) answers to one HTTP attempt *)

\* Retry-After header values: absent, unparsable, smaller and larger numbers
RetryAfterHeaders == {"", "invalid", "3", "60"}

\* float(retry_after): the parsed number, or -1 when float() raises ValueError
ParseFloat(h) ==
    CASE h = "3" -> 3
      [] h = "60" -> 60
      [] OTHER -> -1

\* response bodies, by the text they stand for:
\*   "empty" = "", "hex1" = "44", "hex4" = "0012ABCD", "hex6" = "010800051700",
\*   "oddhex" = "4", "nonhex" = "GGGG", "json" = a JSON object such as
\*   {"ok": true}
Bodies == {"empty", "hex1", "hex4", "hex6", "oddhex", "nonhex", "json"}

Statuses == {200, 400, 401, 403, 404, 429, 500, 503}

TransportFailures == {"timeout", "connect"}

NoResponse == [kind |-> "none", status |-> 0, retry_after |-> "", body |-> "empty"]

\* session.get() on a closed aiohttp session raises RuntimeError("Session is
\* closed") before anything is sent
SessionClosed == [kind |-> "closed", status |-> 0, retry_after |-> "", body |-> "empty"]

\* expect_len arguments of _request: -1 stands for None, 0 for commands, 4 for
\* the four-byte reads, 6 for the read of an absence window
ExpectLens == {-1, 0, 4, 6}

Responses ==
    [kind : {"http"}, status : Statuses \ {200, 429}, retry_after : {""}, body : {"empty"}]
    \cup [kind : {"http"}, status : {200}, retry_after : {""}, body : Bodies]
    \cup [kind : {"http"}, status : {429}, retry_after : RetryAfterHeaders, body : {"empty"}]
    \cup [kind : TransportFailures, status : {0}, retry_after : {""}, body : {"empty"}]

----------------------------------------------------------------------------
(* ZewaClient._request, one attempt *)

\* _parse_hex_payload: the decoded length, or -1 when it raises ZewaResponseError
ParseHexPayload(body) ==
    CASE body = "empty" -> 0
      [] body = "hex1" -> 1
      [] body = "hex4" -> 4
      [] body = "hex6" -> 6
      [] OTHER -> -1

Effect(act, exc, value) == [act |-> act, exc |-> exc, value |-> value]

\* the body of the try block: what it raises, or that it ran to the end
ZewaTry401AsRequestError(resp, attempt) ==
    CASE resp.kind = "timeout" -> Effect("raise", "TimeoutError", "")
      [] resp.kind = "connect" -> Effect("raise", "ClientConnectorError", "")
      [] resp.kind = "closed" -> Effect("raise", "RuntimeError", "")
      [] resp.status = 429 ->
            IF attempt >= max_attempts
            THEN Effect("raise", "ZewaRateLimitError", "")
            ELSE Effect("rate_limit", "", "")
      [] resp.status >= 400 ->
            IF resp.status \in {400, 500}
            THEN Effect("raise", "ZewaInvalidCommandError", "")
            ELSE Effect("raise", "ZewaRequestError", "")
      [] OTHER -> Effect("else", "", "")

ZewaTryLimitOffByOne(resp, attempt) ==
    CASE resp.kind = "timeout" -> Effect("raise", "TimeoutError", "")
      [] resp.kind = "connect" -> Effect("raise", "ClientConnectorError", "")
      [] resp.kind = "closed" -> Effect("raise", "RuntimeError", "")
      [] resp.status \in {401, 403} -> Effect("raise", "ZewaAuthenticationError", "")
      [] resp.status = 429 ->
            IF attempt > max_attempts
            THEN Effect("raise", "ZewaRateLimitError", "")
            ELSE Effect("rate_limit", "", "")
      [] resp.status >= 400 ->
            IF resp.status \in {400, 500}
            THEN Effect("raise", "ZewaInvalidCommandError", "")
            ELSE Effect("raise", "ZewaRequestError", "")
      [] OTHER -> Effect("else", "", "")

ZewaTryRetriesUnavailable(resp, attempt) ==
    CASE resp.kind = "timeout" -> Effect("raise", "TimeoutError", "")
      [] resp.kind = "connect" -> Effect("raise", "ClientConnectorError", "")
      [] resp.kind = "closed" -> Effect("raise", "RuntimeError", "")
      [] resp.status \in {401, 403} -> Effect("raise", "ZewaAuthenticationError", "")
      [] resp.status \in {429, 503} ->
            IF attempt >= max_attempts
            THEN Effect("raise", "ZewaRateLimitError", "")
            ELSE Effect("rate_limit", "", "")
      [] resp.status >= 400 ->
            IF resp.status \in {400, 500}
            THEN Effect("raise", "ZewaInvalidCommandError", "")
            ELSE Effect("raise", "ZewaRequestError", "")
      [] OTHER -> Effect("else", "", "")

ZewaTry(resp, attempt) ==
    CASE resp.kind = "timeout" -> Effect("raise", "TimeoutError", "")
      [] resp.kind = "connect" -> Effect("raise", "ClientConnectorError", "")
      [] resp.kind = "closed" -> Effect("raise", "RuntimeError", "")
      [] resp.status \in {401, 403} -> Effect("raise", "ZewaAuthenticationError", "")
      [] resp.status = 429 ->
            IF attempt >= max_attempts
            THEN Effect("raise", "ZewaRateLimitError", "")
            ELSE Effect("rate_limit", "", "")
      [] resp.status >= 400 ->
            IF resp.status \in {400, 500}
            THEN Effect("raise", "ZewaInvalidCommandError", "")
            ELSE Effect("raise", "ZewaRequestError", "")
      [] OTHER -> Effect("else", "", "")

\* the except clauses: aiohttp.ClientError and asyncio.TimeoutError become
\* ZewaConnectionError, every other exception passes through
ZewaExcept(exc) ==
    IF exc \in {"ClientConnectorError", "ClientResponseError", "ClientError", "TimeoutError"}
    THEN Effect("raise", "ZewaConnectionError", "")
    ELSE Effect("raise", exc, "")

\* the else clause: parse the payload and compare its length
ZewaElse(body, expect_len) ==
    LET n == ParseHexPayload(body) IN
    IF n = -1 THEN Effect("raise", "ZewaResponseError", "")
    ELSE IF expect_len /= -1 /\ n /= expect_len THEN Effect("raise", "ZewaResponseError", "")
    ELSE Effect("return", "", "data")

ZewaAttempt(resp, attempt, expect_len) ==
    LET t == ZewaTry(resp, attempt) IN
    CASE t.act = "raise" -> ZewaExcept(t.exc)
      [] t.act = "else" -> ZewaElse(resp.body, expect_len)
      [] OTHER -> t

----------------------------------------------------------------------------
(* JudoClient._rest_request and _fetch_json, one attempt *)

\* the value a soft failure yields: {} from _rest_request, None from _fetch_json
EmptyValue(m) == IF m = "_rest_request" THEN "{}" ELSE "None"

\* json.loads of the body: what it returns, or that it raises JSONDecodeError
JsonLoads(body) ==
    CASE body = "json" -> "object"
      [] body \in {"hex1", "oddhex"} -> "number"
      [] OTHER -> "JSONDecodeError"

\* the body of the try block
JudoTry(m, resp, attempt) ==
    CASE resp.kind = "timeout" -> Effect("raise", "TimeoutError", "")
      [] resp.kind = "connect" -> Effect("raise", "ClientConnectorError", "")
      [] resp.kind = "closed" -> Effect("raise", "RuntimeError", "")
      [] resp.status = 404 -> Effect("return", "", EmptyValue(m))
      [] resp.status \in {401, 403} -> Effect("raise", "JudoAuthenticationError", "")
      [] resp.status = 429 ->
            IF attempt >= JudoMaxAttempts
            THEN Effect("raise", "JudoConnectionError", "")
            ELSE Effect("rate_limit", "", "")
      [] resp.status >= 400 -> Effect("raise", "ClientResponseError", "")
      [] m = "_rest_request" -> Effect("success", "", "")
      [] resp.body = "empty" -> Effect("return", "", "None")
      [] JsonLoads(resp.body) = "JSONDecodeError" -> Effect("raise", "JSONDecodeError", "")
      [] OTHER -> Effect("return", "", JsonLoads(resp.body))

\* the except clauses, in the order of the source, for an exception the try
\* block raised on a response of the given status
JudoExceptBroadFirst(m, exc, status, attempt) ==
    CASE exc = "JudoAuthenticationError" -> Effect("raise", "JudoAuthenticationError", "")
      [] OTHER -> Effect("return", "", EmptyValue(m))

JudoExceptNoResponseClause(m, exc, status, attempt) ==
    CASE exc = "JudoAuthenticationError" -> Effect("raise", "JudoAuthenticationError", "")
      [] exc = "TimeoutError" -> Effect("raise", "JudoConnectionError", "")
      [] exc \in {"ClientConnectorError", "ClientResponseError", "ClientError"} ->
            Effect("raise", "JudoConnectionError", "")
      [] OTHER -> Effect("return", "", EmptyValue(m))

JudoExcept(m, exc, status, attempt) ==
    CASE exc = "JudoAuthenticationError" -> Effect("raise", "JudoAuthenticationError", "")
      [] exc = "TimeoutError" -> Effect("raise", "JudoConnectionError", "")
      [] exc = "ClientConnectorError" -> Effect("raise", "JudoConnectionError", "")
      [] exc = "ClientResponseError" ->
            CASE status = 404 -> Effect("return", "", EmptyValue(m))
              [] status \in {401, 403} -> Effect("raise", "JudoAuthenticationError", "")
              [] status = 429 ->
                    IF attempt >= JudoMaxAttempts
                    THEN Effect("raise", "JudoConnectionError", "")
                    ELSE Effect("rate_limit", "", "")
              [] OTHER -> Effect("return", "", EmptyValue(m))
      [] exc = "ClientError" -> Effect("raise", "JudoConnectionError", "")
      \* json.JSONDecodeError (in _fetch_json) and the final "except Exception"
      [] OTHER -> Effect("return", "", EmptyValue(m))

\* after the loop of _rest_request: empty text gives {}, any other text is parsed
JudoAfterLoop(body) ==
    IF body = "empty" THEN Effect("return", "", "{}") ELSE Effect("return", "", "parsed")

JudoAttempt(m, resp, attempt) ==
    LET t == JudoTry(m, resp, attempt) IN
    CASE t.act = "raise" -> JudoExcept(m, t.exc, resp.status, attempt)
      [] t.act = "success" -> JudoAfterLoop(resp.body)
      [] OTHER -> t

Attempt(m, resp, attempt, expect_len) ==
    IF m = "_request" THEN ZewaAttempt(resp, attempt, expect_len)
    ELSE JudoAttempt(m, resp, attempt)

----------------------------------------------------------------------------
(* _handle_rate_limit, the same in both clients *)

\* the wait: max(delay, initial delay), raised to Retry-After when it parses
WaitTimeHeaderFirst(m, delay, retry_after) ==
    IF retry_after /= "" /\ ParseFloat(retry_after) /= -1
    THEN ParseFloat(retry_after)
    ELSE Max2(delay, InitialDelay(m))

WaitTime(m, delay, retry_after) ==
    LET wait_time == Max2(delay, InitialDelay(m)) IN
    IF retry_after /= "" /\ ParseFloat(retry_after) /= -1
    THEN Max2(wait_time, ParseFloat(retry_after))
    ELSE wait_time

\* the delay it returns for the next 429
NextDelayNotDoubled(m, wait_time) == Min2(wait_time, MaxDelay(m))

NextDelay(m, wait_time) == Min2(wait_time * 2, MaxDelay(m))

----------------------------------------------------------------------------
(* The single-flight gate: asyncio.Semaphore(1) / asyncio.Lock *)

\* acquire succeeds at once only if the gate is free and nobody queues for it
CanAcquireUnguarded == TRUE

CanAcquire == holders = {} /\ waiters = <<>>

\* release wakes the waiter at the front of the queue
NextWaiterNewest == waiters[Len(waiters)]

NextWaiter == Head(waiters)

\* _handle_rate_limit is awaited inside "async with": the sleeper keeps the gate
HoldersDuringSleepReleased(c) == holders \ {c}

HoldersDuringSleep(c) == holders

----------------------------------------------------------------------------
(* The frame of one logical request *)

\* ahead: the callers that were already queued when this one began to wait and
\* have not made their first attempt since
IdleFrame ==
    [pc |-> "idle", method |-> "", expect_len |-> -1, attempt |-> 0, delay |-> 0,
     sleeps |-> <<>>, plain |-> TRUE, last |-> NoResponse,
     outcome |-> "pending", value |-> "", ahead |-> {}]

\* delay = initial backoff; attempt = 0; then "async with" the gate
NewFrame(m, e, pc) ==
    [IdleFrame EXCEPT !.pc = pc, !.method = m, !.expect_len = e,
                      !.delay = InitialDelay(m)]

NoAgg == [pc |-> "unused"]

NoCmd == [pc |-> "unused"]

\* a session handed in by the caller (async_get_clientsession): the client does
\* not own it; under is the set of callers that held the gate when it was closed
SharedSession == [owns |-> FALSE, closed |-> FALSE, under |-> {}]

\* "session or aiohttp.ClientSession()": without a session argument the client
\* creates its own
OwnSession == [owns |-> TRUE, closed |-> FALSE, under |-> {}]

Init ==
    /\ client \in {"zewa", "judo"}
    /\ max_attempts \in (IF client = "zewa" THEN ZewaAttemptBudgets ELSE {JudoMaxAttempts})
    /\ holders = {}
    /\ waiters = <<>>
    /\ active = 0
    /\ req = [c \in Callers |-> IdleFrame]
    /\ agg = NoAgg
    /\ session = SharedSession
    /\ cmd = NoCmd

\* "async with" the gate: the caller gets it at once or queues for it
Enter(c, m, e) ==
    IF CanAcquire
    THEN /\ holders' = holders \cup {c}
         /\ waiters' = waiters
         /\ req' = [req EXCEPT ![c] = NewFrame(m, e, "loop")]
    ELSE /\ holders' = holders
         /\ waiters' = Append(waiters, c)
         /\ req' = [req EXCEPT ![c] = [NewFrame(m, e, "waiting") EXCEPT
                                         !.ahead = {waiters[i] : i \in DOMAIN waiters}]]

\* a caller enters _request / _rest_request / _fetch_json and reaches the gate
Start(c, m, e) ==
    /\ req[c].pc = "idle"
    /\ m \in Methods(client)
    /\ e \in (IF m = "_request" THEN ExpectLens ELSE {-1})
    /\ Enter(c, m, e)
    /\ UNCHANGED <<client, active, max_attempts, agg, session, cmd>>

\* the gate is free: the caller that waited longest gets it
Admit(c) ==
    /\ holders = {}
    /\ waiters /= <<>>
    /\ c = NextWaiter
    /\ holders' = {c}
    /\ waiters' = SelectSeq(waiters, LAMBDA w : w /= c)
    /\ req' = [req EXCEPT ![c].pc = "loop"]
    /\ UNCHANGED <<client, active, max_attempts, agg, session, cmd>>

\* top of "while attempt < max_attempts": the next HTTP request is sent
BeginAttempt(c) ==
    /\ req[c].pc = "loop"
    /\ IF req[c].attempt < MaxAttempts(req[c].method)
       THEN \/ /\ req' = [d \in DOMAIN req |->
                           IF d = c
                           THEN [req[c] EXCEPT !.attempt = @ + 1, !.pc = "inflight"]
                           ELSE [req[d] EXCEPT !.ahead = @ \ {c}]]
               /\ active' = active + 1
            \/ \* the session was closed: session.get() may raise at once
               /\ session.closed
               /\ LET f == req[c]
                      eff == Attempt(f.method, SessionClosed, f.attempt + 1, f.expect_len)
                  IN req' = [req EXCEPT
                               ![c].attempt = @ + 1,
                               ![c].pc = "done",
                               ![c].last = SessionClosed,
                               ![c].outcome = IF eff.act = "raise" THEN eff.exc
                                              ELSE "return",
                               ![c].value = eff.value]
               /\ active' = active
       ELSE \* the statement after the loop
            /\ req' = [req EXCEPT ![c].pc = "done",
                          ![c].outcome = IF req[c].method = "_request"
                                         THEN "ZewaRateLimitError"
                                         ELSE "JudoConnectionError"]
            /\ active' = active
    /\ UNCHANGED <<client, holders, waiters, max_attempts, agg, session, cmd>>

\* the attempt is answered (or fails in transport) and the answer is handled
Respond(c, resp) ==
    /\ req[c].pc = "inflight"
    /\ resp \in Responses
    /\ LET f == req[c]
           eff == Attempt(f.method, resp, f.attempt, f.expect_len)
       IN IF eff.act = "rate_limit"
          THEN \* sleeping inside the response context and inside the gate
               /\ req' = [req EXCEPT
                            ![c].pc = "sleeping",
                            ![c].last = resp,
                            ![c].plain = f.plain /\ resp.retry_after = "",
                            ![c].sleeps = Append(f.sleeps,
                                   WaitTime(f.method, f.delay, resp.retry_after))]
               /\ active' = active
               /\ holders' = HoldersDuringSleep(c)
          ELSE /\ req' = [req EXCEPT
                            ![c].pc = "done",
                            ![c].last = resp,
                            ![c].outcome = IF eff.act = "raise" THEN eff.exc ELSE "return",
                            ![c].value = eff.value]
               /\ active' = active - 1
               /\ holders' = holders
    /\ UNCHANGED <<client, waiters, max_attempts, agg, session, cmd>>

\* a variant in which the attempt counter starts over after each sleep
WakeUpRestartsCount(c) ==
    /\ req[c].pc = "sleeping"
    /\ req' = [req EXCEPT
                 ![c].pc = "loop",
                 ![c].attempt = 0,
                 ![c].delay = NextDelay(req[c].method,
                                        req[c].sleeps[Len(req[c].sleeps)])]
    /\ active' = active - 1
    /\ UNCHANGED <<client, holders, waiters, max_attempts, agg, session, cmd>>

\* the backoff sleep ends: _handle_rate_limit returns the next delay, "continue"
WakeUp(c) ==
    /\ req[c].pc = "sleeping"
    /\ req' = [req EXCEPT
                 ![c].pc = "loop",
                 ![c].delay = NextDelay(req[c].method,
                                        req[c].sleeps[Len(req[c].sleeps)])]
    /\ active' = active - 1
    /\ UNCHANGED <<client, holders, waiters, max_attempts, agg, session, cmd>>

\* a variant in which leaving "async with" does not release the gate
ReleaseKeepsGate(c) ==
    /\ req[c].pc = "done"
    /\ req' = [req EXCEPT ![c] = IdleFrame]
    /\ session' = [session EXCEPT !.under = @ \ {c}]
    /\ UNCHANGED <<client, holders, waiters, active, max_attempts, agg, cmd>>

\* the result or the exception leaves "async with": the gate is released and the
\* frame is discarded
Release(c) ==
    /\ req[c].pc = "done"
    /\ holders' = holders \ {c}
    /\ req' = [req EXCEPT ![c] = IdleFrame]
    /\ session' = [session EXCEPT !.under = @ \ {c}]
    /\ UNCHANGED <<client, waiters, active, max_attempts, agg, cmd>>

Next ==
    \/ \E c \in DOMAIN req, m \in {"_request", "_rest_request", "_fetch_json"},
          e \in ExpectLens : Start(c, m, e)
    \/ \E c \in DOMAIN req : Admit(c)
    \/ \E c \in DOMAIN req : BeginAttempt(c)
    \/ \E c \in DOMAIN req, resp \in Responses : Respond(c, resp)
    \/ \E c \in DOMAIN req : WakeUp(c)
    \/ \E c \in DOMAIN req : Release(c)

Spec == Init /\ [][Next]_vars

\* every HTTP attempt is answered or fails, every sleep ends, and the event loop
\* runs each task that can run: the waiter at the front is woken, the loop goes
\* on, the "async with" is left
Fairness ==
    \A c \in Callers :
        /\ WF_vars(Admit(c))
        /\ WF_vars(BeginAttempt(c))
        /\ WF_vars(\E resp \in Responses : Respond(c, resp))
        /\ WF_vars(WakeUp(c))
        /\ WF_vars(Release(c))

SpecLive == Spec /\ Fairness

----------------------------------------------------------------------------
(* The queue at the gate: more callers than one can wait at a time *)

NumQueuers == 3

Queuers == 1..NumQueuers

\* a ZewaClient with the budget of the tests, or a JudoClient
InitQueue ==
    /\ client \in {"zewa", "judo"}
    /\ max_attempts = (IF client = "zewa" THEN 2 ELSE JudoMaxAttempts)
    /\ holders = {}
    /\ waiters = <<>>
    /\ active = 0
    /\ req = [c \in Queuers |-> IdleFrame]
    /\ agg = NoAgg
    /\ session = SharedSession
    /\ cmd = NoCmd

SpecQueue == InitQueue /\ [][Next]_vars

----------------------------------------------------------------------------
(* Teardown: ZewaClient.close while requests may be under way *)

InitClose ==
    /\ client = "zewa"
    /\ max_attempts \in ZewaAttemptBudgets
    /\ holders = {}
    /\ waiters = <<>>
    /\ active = 0
    /\ req = [c \in Callers |-> IdleFrame]
    /\ agg = NoAgg
    /\ session \in {SharedSession, OwnSession}
    /\ cmd = NoCmd

\* close(): the session is closed only if the client created it, and then at
\* once: close() does not take the gate
Close ==
    /\ session' = IF session.owns /\ ~session.closed
                  THEN [session EXCEPT !.closed = TRUE, !.under = holders]
                  ELSE session
    /\ UNCHANGED <<client, holders, waiters, active, req, max_attempts, agg, cmd>>

NextClose ==
    \/ Next
    \/ Close

SpecClose == InitClose /\ [][NextClose]_vars

----------------------------------------------------------------------------
(* The command methods: what they check, build and hand to the engine *)

\* how far beyond the ends of a legal range the arguments are drawn
Margin == 1

Probes(lo, hi) == ((lo - Margin)..lo) \cup (hi..(hi + Margin))

U8Max == 255

U16Max == 65535

\* helpers._clamp
Clamp(value, maximum) ==
    IF value < 0 THEN 0 ELSE IF value > maximum THEN maximum ELSE value

\* helpers.toU8 and helpers.toU16BE, as sequences of bytes
ToU8(value) == <<Clamp(value, U8Max)>>

ToU16BE(value) == <<Clamp(value, U16Max) \div 256, Clamp(value, U16Max) % 256>>

\* max(lo, min(int(value), hi)) of the write methods
BoundedFromBelowOnly(lo, hi, value) == Max2(lo, value)

Bounded(lo, hi, value) == Max2(lo, Min2(value, hi))

\* "if value < lo or value > hi: raise ValueError" of the ZewaClient setters
InRangeOpenAbove(lo, hi, value) == value >= lo

InRange(lo, hi, value) == value >= lo /\ value <= hi

Request(command, payload, expect_len) ==
    [act |-> "request", exc |-> "", command |-> command, payload |-> payload,
     expect_len |-> expect_len]

Raise(exc) ==
    [act |-> "raise", exc |-> exc, command |-> "", payload |-> <<>>, expect_len |-> -1]

Zeros(n) == [i \in 1..n |-> 0]

\* the longest payload the protocol allows, in bytes
PayloadLimit == 80

JudoWrites ==
    {"write_sleep_duration", "write_absence_limits", "write_leak_settings",
     "write_vacation_type", "write_microleak_mode", "write_absence_time",
     "delete_absence_time"}

ZewaSetters ==
    {"set_sleep_hours", "set_vacation_type", "set_micro_leak_mode",
     "get_absence_window", "set_absence_window", "delete_absence_window"}

\* the ZewaClient methods that encode their arguments with zewa_client.hex, and
\* set_clock; the prefix tells them from the JudoClient methods of the same name
ZewaWrites == {"zewa.write_absence_limits", "zewa.write_leak_preset", "set_clock"}

CmdMethods(cl) ==
    IF cl = "zewa" THEN ZewaSetters \cup ZewaWrites
    ELSE JudoWrites \cup {"_rest_request", "write_device_time"}

\* zewa_client.hex._ensure_range: TRUE when it does not raise ValueError; for
\* more than 16 bits the comparison with (1 << bits) - 1 is made on the value
\* without its low 16 bits, which keeps the numbers below 2^31
EnsureRange(value, bits) ==
    /\ value >= 0
    /\ IF bits > 16 THEN value \div 65536 <= 2^(bits - 16) - 1
                    ELSE value <= 2^bits - 1

\* int.to_bytes(2, "big")
U16Bytes(value) == <<value \div 256, value % 256>>

\* the datetimes the clock is set to, as <<day, month, year, hour, minute,
\* second>> in UTC: the years around the ends of 2000..2255 and around the turn
\* of the century
ClockYears == Probes(2000, 2255) \cup Probes(2099, 2100)

\* dt.year % 100 (and, in JudoClient, & 0xFF, which leaves 0..99 as it is)
YearByte(year) == (year % 100) % 256

\* the arguments a method is called with; for _rest_request the payload itself
CmdArgs(method) ==
    CASE method \in {"write_sleep_duration", "set_sleep_hours"} ->
            {<<h>> : h \in Probes(1, 10)}
      [] method \in {"write_vacation_type", "set_vacation_type"} ->
            {<<t>> : t \in Probes(0, 3)}
      [] method \in {"write_microleak_mode", "set_micro_leak_mode"} ->
            {<<t>> : t \in Probes(0, 2)}
      [] method = "write_absence_limits" ->
            Probes(0, U16Max) \X Probes(0, U16Max) \X Probes(0, U16Max)
      [] method = "write_leak_settings" ->
            Probes(0, 3) \X Probes(0, U16Max) \X Probes(0, U16Max) \X Probes(0, U16Max)
      [] method = "write_absence_time" ->
            Probes(0, 6) \X Probes(0, 6) \X Probes(0, 23) \X Probes(0, 59)
                \X Probes(0, 6) \X Probes(0, 23) \X Probes(0, 59)
      [] method \in {"delete_absence_time", "get_absence_window",
                     "delete_absence_window"} ->
            {<<i>> : i \in Probes(0, 6)}
      [] method = "set_absence_window" ->
            {<<i, 1, 8, 0, 5, 17, 30>> : i \in Probes(0, 6)}
      [] method = "zewa.write_absence_limits" ->
            Probes(0, U16Max) \X Probes(0, U16Max) \X Probes(0, U16Max)
      [] method = "zewa.write_leak_preset" ->
            Probes(0, 3) \X Probes(0, U16Max) \X Probes(0, U16Max) \X Probes(0, U16Max)
      [] method \in {"write_device_time", "set_clock"} ->
            {<<31, 12, year, 23, 59, 58>> : year \in ClockYears}
      [] OTHER -> {Zeros(0), Zeros(PayloadLimit), Zeros(PayloadLimit + 1)}

\* a JudoClient write method up to its "await self._rest_request(...)";
\* _format_command turns the one-byte command 0x53 into "5300"
JudoWrite(method, a) ==
    CASE method = "write_sleep_duration" ->
            Request("5300", ToU8(Bounded(1, 10, a[1])), -1)
      [] method = "write_absence_limits" ->
            Request("5F00", ToU16BE(a[1]) \o ToU16BE(a[2]) \o ToU16BE(a[3]), -1)
      [] method = "write_leak_settings" ->
            Request("5000", ToU8(Bounded(0, 3, a[1])) \o ToU16BE(a[2])
                              \o ToU16BE(a[3]) \o ToU16BE(a[4]), -1)
      [] method = "write_vacation_type" ->
            Request("5600", ToU8(Bounded(0, 3, a[1])), -1)
      [] method = "write_microleak_mode" ->
            Request("5B00", ToU8(Bounded(0, 2, a[1])), -1)
      [] method = "write_absence_time" ->
            Request("6100", <<Bounded(0, 6, a[1]), Bounded(0, 6, a[2]),
                              Bounded(0, 23, a[3]), Bounded(0, 59, a[4]),
                              Bounded(0, 6, a[5]), Bounded(0, 23, a[6]),
                              Bounded(0, 59, a[7])>>, -1)
      [] method = "delete_absence_time" ->
            Request("6200", <<Bounded(0, 6, a[1])>>, -1)
      [] method = "write_device_time" ->
            Request("5A00", <<a[1] % 256, a[2] % 256, YearByte(a[3]), a[4] % 256,
                              a[5] % 256, a[6] % 256>>, -1)
      \* _rest_request("5000", payload): _format_command, _encode_payload, no
      \* check of the length
      [] OTHER -> Request("5000", a, -1)

\* a ZewaClient method up to its "await self._request(...)"
ZewaSet(method, a) ==
    CASE method = "set_sleep_hours" ->
            IF InRange(1, 10, a[1]) THEN Request("53", <<a[1]>>, 0)
            ELSE Raise("ValueError")
      [] method = "set_vacation_type" ->
            IF InRange(0, 3, a[1]) THEN Request("56", <<a[1]>>, 0)
            ELSE Raise("ValueError")
      [] method = "set_micro_leak_mode" ->
            IF InRange(0, 2, a[1]) THEN Request("5B", <<a[1]>>, 0)
            ELSE Raise("ValueError")
      [] method = "get_absence_window" ->
            IF InRange(0, 6, a[1]) THEN Request("60", <<a[1]>>, 6)
            ELSE Raise("ValueError")
      [] method = "set_absence_window" ->
            IF InRange(0, 6, a[1]) THEN Request("61", a, 0)
            ELSE Raise("ValueError")
      [] method = "zewa.write_absence_limits" ->
            IF \A i \in 1..3 : EnsureRange(a[i], 16)
            THEN Request("5F00", U16Bytes(a[1]) \o U16Bytes(a[2]) \o U16Bytes(a[3]), 0)
            ELSE Raise("ValueError")
      [] method = "zewa.write_leak_preset" ->
            IF a[1] \in 0..3 /\ EnsureRange(a[1], 8) /\ \A i \in 2..4 : EnsureRange(a[i], 16)
            THEN Request("50", <<a[1]>> \o U16Bytes(a[2]) \o U16Bytes(a[3])
                               \o U16Bytes(a[4]), 0)
            ELSE Raise("ValueError")
      \* bytes([...]) of values that all lie in 0..255
      [] method = "set_clock" ->
            Request("5A", <<a[1], a[2], YearByte(a[3]), a[4], a[5], a[6]>>, 0)
      [] OTHER ->
            IF InRange(0, 6, a[1]) THEN Request("6200", <<a[1]>>, 0)
            ELSE Raise("ValueError")

Prologue(method, a) ==
    IF method \in ZewaSetters \cup ZewaWrites THEN ZewaSet(method, a)
    ELSE JudoWrite(method, a)

IdleCmd ==
    [pc |-> "idle", method |-> "", args |-> <<>>, command |-> "", payload |-> <<>>,
     exc |-> ""]

\* the one caller of the command methods
Commander == 1

InitCmd ==
    /\ client \in {"zewa", "judo"}
    /\ max_attempts = (IF client = "zewa" THEN 2 ELSE JudoMaxAttempts)
    /\ holders = {}
    /\ waiters = <<>>
    /\ active = 0
    /\ req = [c \in {Commander} |-> IdleFrame]
    /\ agg = NoAgg
    /\ session = SharedSession
    /\ cmd = IdleCmd

\* a command method is called: it checks or clamps its arguments, builds the
\* path and, unless it raised, enters _request / _rest_request up to the gate
Call(method, a) ==
    /\ cmd.pc = "idle"
    /\ method \in CmdMethods(client)
    /\ LET p == Prologue(method, a)
       IN IF p.act = "raise"
          THEN /\ cmd' = [IdleCmd EXCEPT !.pc = "raised", !.method = method,
                                         !.args = a, !.exc = p.exc]
               /\ UNCHANGED <<holders, waiters, req>>
          ELSE /\ cmd' = [IdleCmd EXCEPT !.pc = "requesting", !.method = method,
                                         !.args = a, !.command = p.command,
                                         !.payload = p.payload]
               /\ Enter(Commander,
                        IF client = "zewa" THEN "_request" ELSE "_rest_request",
                        p.expect_len)
    /\ UNCHANGED <<client, active, max_attempts, agg, session>>

\* the method is suspended in its await: the URL is built, the arguments and
\* the payload play no further part
Await ==
    /\ cmd.pc = "requesting"
    /\ cmd' = [IdleCmd EXCEPT !.pc = "awaiting", !.method = cmd.method]
    /\ UNCHANGED <<client, holders, waiters, active, req, max_attempts, agg, session>>

\* the method is over: it raised, or its request left the engine
Return ==
    /\ \/ cmd.pc = "raised"
       \/ cmd.pc = "awaiting" /\ req[Commander].pc = "idle"
    /\ cmd' = IdleCmd
    /\ UNCHANGED <<client, holders, waiters, active, req, max_attempts, agg, session>>

NextCmd ==
    \/ /\ cmd.pc = "idle"
       /\ \E method \in CmdMethods(client) : \E a \in CmdArgs(method) : Call(method, a)
    \/ Await
    \/ cmd.pc = "awaiting" /\ BeginAttempt(Commander)
    \/ cmd.pc = "awaiting" /\ \E resp \in Responses : Respond(Commander, resp)
    \/ cmd.pc = "awaiting" /\ WakeUp(Commander)
    \/ cmd.pc = "awaiting" /\ Release(Commander)
    \/ Return

SpecCmd == InitCmd /\ [][NextCmd]_vars

----------------------------------------------------------------------------
(* ZewaClient's reads: paths and response texts as sequences of characters *)

\* the longest response payload explored, in bytes
MaxReadLen == 50

HexDigits == <<"0", "1", "2", "3", "4", "5", "6", "7", "8", "9",
               "A", "B", "C", "D", "E", "F">>

\* _HEX_CHARS
HexChars == {HexDigits[i] : i \in DOMAIN HexDigits}

\* str.upper() on one character: the lower-case hex letters; the other
\* characters used here have no upper-case form that is a hex digit
UpperText(text) ==
    LET Upper(ch) ==
            CASE ch = "a" -> "A" [] ch = "b" -> "B" [] ch = "c" -> "C"
              [] ch = "d" -> "D" [] ch = "e" -> "E" [] ch = "f" -> "F"
              [] OTHER -> ch
    IN [i \in DOMAIN text |-> Upper(text[i])]

\* f"{b:02X}" and bytes.hex().upper()
Hex2(b) == <<HexDigits[(b \div 16) + 1], HexDigits[(b % 16) + 1]>>

RECURSIVE HexOf(_)
HexOf(bytes) == IF bytes = <<>> THEN <<>> ELSE Hex2(Head(bytes)) \o HexOf(Tail(bytes))

\* bytes.fromhex on a text of an even number of hex digits
FromHex(text) ==
    LET HexVal(ch) == CHOOSE d \in 0..15 : HexDigits[d + 1] = ch
    IN [i \in 1..(Len(text) \div 2) |->
            16 * HexVal(text[2 * i - 1]) + HexVal(text[2 * i])]

StartsWith(text, prefix) ==
    Len(text) >= Len(prefix) /\ SubSeq(text, 1, Len(prefix)) = prefix

ApiRest == <<"/", "a", "p", "i", "/", "r", "e", "s", "t", "/">>

Repeat(n, ch) == [i \in 1..n |-> ch]

\* ZewaClient._normalise_path: the command of the normalised path, or the
\* ZewaInvalidCommandError it raises
NormalisePathAnyLength(path) ==
    IF path = <<>> THEN Effect("raise", "ZewaInvalidCommandError", <<>>)
    ELSE LET p == IF StartsWith(path, <<"/">>) THEN path ELSE <<"/">> \o path
             command == UpperText(SubSeq(p, Len(ApiRest) + 1, Len(p)))
         IN IF ~StartsWith(p, ApiRest)
            THEN Effect("raise", "ZewaInvalidCommandError", <<>>)
            ELSE IF command = <<>>
            THEN Effect("raise", "ZewaInvalidCommandError", <<>>)
            ELSE IF \E i \in DOMAIN command : command[i] = "?"
            THEN Effect("raise", "ZewaInvalidCommandError", <<>>)
            ELSE IF Len(command) % 2 /= 0
            THEN Effect("raise", "ZewaInvalidCommandError", <<>>)
            ELSE IF ~(\A i \in DOMAIN command : command[i] \in HexChars)
            THEN Effect("raise", "ZewaInvalidCommandError", <<>>)
            ELSE Effect("return", "", command)

NormalisePath(path) ==
    IF path = <<>> THEN Effect("raise", "ZewaInvalidCommandError", <<>>)
    ELSE LET p == IF StartsWith(path, <<"/">>) THEN path ELSE <<"/">> \o path
             command == UpperText(SubSeq(p, Len(ApiRest) + 1, Len(p)))
         IN IF ~StartsWith(p, ApiRest)
            THEN Effect("raise", "ZewaInvalidCommandError", <<>>)
            ELSE IF command = <<>>
            THEN Effect("raise", "ZewaInvalidCommandError", <<>>)
            ELSE IF \E i \in DOMAIN command : command[i] = "?"
            THEN Effect("raise", "ZewaInvalidCommandError", <<>>)
            ELSE IF Len(command) % 2 /= 0
            THEN Effect("raise", "ZewaInvalidCommandError", <<>>)
            ELSE IF Len(command) \div 2 > PayloadLimit
            THEN Effect("raise", "ZewaInvalidCommandError", <<>>)
            ELSE IF ~(\A i \in DOMAIN command : command[i] \in HexChars)
            THEN Effect("raise", "ZewaInvalidCommandError", <<>>)
            ELSE Effect("return", "", command)

\* ZewaClient._parse_hex_payload on the text itself: the bytes, or
\* ZewaResponseError
ParseHexText(raw) ==
    LET cleaned == UpperText(raw) IN
    IF cleaned = <<>> THEN Effect("return", "", <<>>)
    ELSE IF Len(cleaned) % 2 /= 0 THEN Effect("raise", "ZewaResponseError", <<>>)
    ELSE IF ~(\A i \in DOMAIN cleaned : cleaned[i] \in HexChars)
    THEN Effect("raise", "ZewaResponseError", <<>>)
    ELSE Effect("return", "", FromHex(cleaned))

\* the else clause of _request: parse the text, compare the length
RequestElseNoLengthCheck(raw, expect_len) == ParseHexText(raw)

RequestElse(raw, expect_len) ==
    LET data == ParseHexText(raw) IN
    IF data.act = "raise" THEN data
    ELSE IF expect_len /= -1 /\ Len(data.value) /= expect_len
    THEN Effect("raise", "ZewaResponseError", <<>>)
    ELSE data

\* int.to_bytes(4, "big")
U32Bytes(value) ==
    <<value \div 16777216, (value \div 65536) % 256, (value \div 256) % 256, value % 256>>

FixedReads ==
    {"get_device_type", "get_serial", "get_fw_version", "get_commission_date",
     "get_total_water_l", "get_sleep_hours", "zewa.read_absence_limits",
     "get_learn_status", "get_vacation_type", "get_micro_leak_mode", "get_clock",
     "get_absence_window"}

StatsReads == {"get_day_stats", "get_week_stats", "get_month_stats", "get_year_stats"}

ReadMethods == FixedReads \cup StatsReads \cup {"_request"}

\* the paths _request is called with directly: with and without the leading
\* slash, another prefix, no command, a query part, commands of lower-case hex
\* digits, of a non-hex letter, and of lengths around the limit of 80 bytes
TestCommands ==
    {Repeat(n, ch) : n \in {0, 3, 4} \cup Probes(2 * PayloadLimit, 2 * PayloadLimit + 2),
                     ch \in {"0", "f", "G"}}
    \cup {<<"F", "F", "0", "0", "?", "x", "=", "1">>, <<"F", "F", "?", "0">>}

TestPaths ==
    {<<>>}
    \cup {ApiRest \o c : c \in TestCommands}
    \cup {Tail(ApiRest) \o c : c \in {Repeat(4, "f"), Repeat(3, "0")}}
    \cup {<<"/", "a", "p", "i", "/">> \o c : c \in {Repeat(4, "0")}}

\* the arguments a read method is called with
ReadArgs(method) ==
    CASE method = "get_absence_window" -> {<<i>> : i \in Probes(0, 6)}
      [] method = "get_day_stats" -> {<<key>> : key \in {-1, 0, 1700000000}}
      [] method = "get_week_stats" -> {<<week, 2024>> : week \in Probes(1, 53)}
      [] method = "get_month_stats" -> {<<month, 2024>> : month \in Probes(1, 12)}
      [] method = "get_year_stats" -> {<<year>> : year \in Probes(0, U16Max)}
      [] method = "_request" -> {<<path, e>> : path \in TestPaths, e \in {-1, 0}}
      [] OTHER -> {<<>>}

PathOf(bytes, expect_len) ==
    [act |-> "request", exc |-> "", path |-> ApiRest \o HexOf(bytes),
     expect_len |-> expect_len]

NoPath(exc) == [act |-> "raise", exc |-> exc, path |-> <<>>, expect_len |-> -1]

\* a read method up to its "await self._request(...)": the path and expect_len
ReadPrologue(method, a) ==
    CASE method = "get_device_type" -> PathOf(<<255, 0>>, 1)
      [] method = "get_serial" -> PathOf(<<6, 0>>, 4)
      [] method = "get_fw_version" -> PathOf(<<1, 0>>, 3)
      [] method = "get_commission_date" -> PathOf(<<14, 0>>, 4)
      [] method = "get_total_water_l" -> PathOf(<<40, 0>>, 4)
      [] method = "zewa.read_absence_limits" -> PathOf(<<94, 0>>, 6)
      [] method = "get_sleep_hours" -> PathOf(<<102, 0>>, 1)
      [] method = "get_learn_status" -> PathOf(<<100, 0>>, 3)
      [] method = "get_vacation_type" -> PathOf(<<86, 0>>, 1)
      [] method = "get_micro_leak_mode" -> PathOf(<<101, 0>>, 1)
      [] method = "get_clock" -> PathOf(<<89, 0>>, 6)
      [] method = "get_absence_window" ->
            IF InRange(0, 6, a[1]) THEN PathOf(<<96, a[1]>>, 6) ELSE NoPath("ValueError")
      [] method = "get_day_stats" ->
            IF EnsureRange(a[1], 32) THEN PathOf(<<251>> \o U32Bytes(a[1]), -1)
            ELSE NoPath("ValueError")
      [] method = "get_week_stats" ->
            IF InRange(1, 53, a[1]) /\ EnsureRange(a[1], 8) /\ EnsureRange(a[2], 16)
            THEN PathOf(<<252, a[1]>> \o U16Bytes(a[2]), -1)
            ELSE NoPath("ValueError")
      [] method = "get_month_stats" ->
            IF InRange(1, 12, a[1]) /\ EnsureRange(a[1], 8) /\ EnsureRange(a[2], 16)
            THEN PathOf(<<253, a[1]>> \o U16Bytes(a[2]), -1)
            ELSE NoPath("ValueError")
      [] method = "get_year_stats" ->
            IF EnsureRange(a[1], 16) THEN PathOf(<<254>> \o U16Bytes(a[1]), -1)
            ELSE NoPath("ValueError")
      \* _request(path, expect_len) itself
      [] OTHER -> [act |-> "request", exc |-> "", path |-> a[1], expect_len |-> a[2]]

\* the path a ZewaClient write method passes to _request: "/api/rest/", the
\* hex digits of the command and those of the payload (f"{mode:02X}",
\* payload.hex().upper())
RequestPath(command, payload) ==
    LET CommandBytes ==
            CASE command = "50" -> <<80>>
              [] command = "53" -> <<83>>
              [] command = "56" -> <<86>>
              [] command = "5A" -> <<90>>
              [] command = "5B" -> <<91>>
              [] command = "5F00" -> <<95, 0>>
              [] command = "60" -> <<96>>
              [] command = "61" -> <<97>>
              [] command = "6200" -> <<98, 0>>
    IN ApiRest \o HexOf(CommandBytes \o payload)

\* zewa_client.hex._require_length: TRUE when it does not raise ValueError
RequireLength(data, offset, size) == offset >= 0 /\ Len(data) >= offset + size

\* tuple(from_u32be(data, offset) for offset in range(0, len(data), 4)): the
\* number of values, or the ValueError of from_u32be
U32Values(data) ==
    LET Offsets == {o \in 0..(Len(data) - 1) : o % 4 = 0}  \* range(0, len(data), 4)
    IN IF \A o \in Offsets : RequireLength(data, o, 4)
       THEN Effect("return", "", Cardinality(Offsets))
       ELSE Effect("raise", "ValueError", 0)

CountIs(data, n) ==
    LET values == U32Values(data) IN
    IF values.act = "raise" THEN values
    ELSE IF values.value /= n THEN Effect("raise", "ZewaResponseError", 0)
    ELSE values

\* what a read method does with the bytes _request returned: the number of
\* values it decoded, or the exception it raises
Decode(method, data) ==
    CASE method \in {"get_serial", "get_commission_date", "get_total_water_l"} ->
            IF RequireLength(data, 0, 4) THEN Effect("return", "", 1)
            ELSE Effect("raise", "ValueError", 0)
      [] method \in {"get_sleep_hours", "get_vacation_type", "get_micro_leak_mode"} ->
            IF RequireLength(data, 0, 1) THEN Effect("return", "", 1)
            ELSE Effect("raise", "ValueError", 0)
      [] method = "get_fw_version" ->
            IF Len(data) >= 3 THEN Effect("return", "", 3)
            ELSE Effect("raise", "IndexError", 0)
      [] method = "zewa.read_absence_limits" ->
            IF \A o \in {0, 2, 4} : RequireLength(data, o, 2) THEN Effect("return", "", 3)
            ELSE Effect("raise", "ValueError", 0)
      [] method = "get_learn_status" ->
            IF RequireLength(data, 0, 1) /\ RequireLength(data, 1, 2)
            THEN Effect("return", "", 2)
            ELSE Effect("raise", "ValueError", 0)
      [] method \in {"get_clock", "get_absence_window"} ->
            IF \A o \in 0..5 : RequireLength(data, o, 1) THEN Effect("return", "", 6)
            ELSE Effect("raise", "ValueError", 0)
      [] method = "get_day_stats" -> CountIs(data, 8)
      [] method = "get_week_stats" -> CountIs(data, 7)
      [] method = "get_year_stats" -> CountIs(data, 12)
      [] method = "get_month_stats" ->
            IF Len(data) % 4 /= 0 THEN Effect("raise", "ZewaResponseError", 0)
            ELSE LET values == U32Values(data) IN
                 IF values.act = "raise" THEN values
                 ELSE IF ~(0 < values.value /\ values.value <= 31)
                 THEN Effect("raise", "ZewaResponseError", 0)
                 ELSE values
      \* get_device_type, and _request called directly
      [] OTHER -> Effect("return", "", Len(data))

\* response texts: n bytes of hex in lower case, an odd number of digits, and
\* a text that is not hex
ReadTexts ==
    LET HexText(n) == [i \in 1..(2 * n) |-> IF i % 2 = 1 THEN "0" ELSE "a"]
    IN {HexText(n) : n \in 0..MaxReadLen} \cup {Repeat(3, "4"), Repeat(4, "G")}

ReadResponses ==
    [kind : {"http"}, status : {200}, retry_after : {""}, raw : ReadTexts]
    \cup [kind : {"http"}, status : {400, 401, 404, 429}, retry_after : {""},
          raw : {<<>>}]
    \cup [kind : TransportFailures, status : {0}, retry_after : {""}, raw : {<<>>}]

NoAnswer == [kind |-> "none", status |-> 0, retry_after |-> "", raw |-> <<>>]

\* the frame of a read method and of the _request it awaits
IdleRead ==
    [pc |-> "idle", method |-> "", args |-> <<>>, command |-> <<>>,
     expect_len |-> -1, attempt |-> 0, delay |-> 0, last |-> NoAnswer,
     data |-> <<>>, outcome |-> "pending", values |-> 0]

InitRead ==
    /\ client = "zewa"
    /\ max_attempts = 2
    /\ holders = {}
    /\ waiters = <<>>
    /\ active = 0
    /\ req = [c \in {Commander} |-> IdleFrame]
    /\ agg = NoAgg
    /\ session = SharedSession
    /\ cmd = IdleRead

\* a read method is called: it checks its arguments and builds the path;
\* _request normalises the path and, unless either raised, takes the gate
ReadCall(method, a) ==
    /\ cmd.pc = "idle"
    /\ LET p == ReadPrologue(method, a)
           n == NormalisePath(p.path)
           called == [IdleRead EXCEPT !.method = method, !.args = a]
       IN IF p.act = "raise"
          THEN /\ cmd' = [called EXCEPT !.pc = "finished", !.outcome = p.exc]
               /\ holders' = holders
          ELSE IF n.act = "raise"
          THEN /\ cmd' = [called EXCEPT !.pc = "finished", !.outcome = n.exc,
                                        !.expect_len = p.expect_len]
               /\ holders' = holders
          ELSE /\ cmd' = [called EXCEPT !.pc = "loop", !.command = n.value,
                                        !.expect_len = p.expect_len,
                                        !.delay = ZewaInitialBackoff]
               /\ holders' = holders \cup {Commander}
    /\ UNCHANGED <<client, waiters, active, req, max_attempts, agg, session>>

\* top of the while loop: the next GET is sent, with the normalised command
ReadSend ==
    /\ cmd.pc = "loop"
    /\ IF cmd.attempt < max_attempts
       THEN /\ cmd' = [cmd EXCEPT !.attempt = @ + 1, !.pc = "inflight"]
            /\ active' = active + 1
            /\ holders' = holders
       ELSE /\ cmd' = [cmd EXCEPT !.pc = "finished", !.outcome = "ZewaRateLimitError"]
            /\ active' = active
            /\ holders' = holders \ {Commander}
    /\ UNCHANGED <<client, waiters, req, max_attempts, agg, session>>

\* the attempt is answered: a 429 is slept on and retried; anything else ends
\* _request, which releases the gate, and the method decodes what it returned
ReadAnswer(resp) ==
    /\ cmd.pc = "inflight"
    /\ LET t == ZewaTry(resp, cmd.attempt)
           x == ZewaExcept(t.exc)
           r == RequestElse(resp.raw, cmd.expect_len)
           d == Decode(cmd.method, r.value)
           seen == [cmd EXCEPT !.last = resp]
       IN IF t.act = "rate_limit"
          THEN /\ cmd' = [seen EXCEPT
                            !.pc = "loop",
                            !.delay = NextDelay("_request",
                                         WaitTime("_request", cmd.delay, resp.retry_after))]
               /\ holders' = holders
          ELSE /\ holders' = holders \ {Commander}
               /\ cmd' = IF t.act = "raise"
                         THEN [seen EXCEPT !.pc = "finished", !.outcome = x.exc]
                         ELSE IF r.act = "raise"
                         THEN [seen EXCEPT !.pc = "finished", !.outcome = r.exc]
                         ELSE [seen EXCEPT
                                 !.pc = "finished",
                                 !.data = r.value,
                                 !.outcome = IF d.act = "raise" THEN d.exc ELSE "return",
                                 !.values = d.value]
    /\ active' = active - 1
    /\ UNCHANGED <<client, waiters, req, max_attempts, agg, session>>

\* the caller has the value or the exception
ReadReturn ==
    /\ cmd.pc = "finished"
    /\ cmd' = IdleRead
    /\ UNCHANGED <<client, holders, waiters, active, req, max_attempts, agg, session>>

NextRead ==
    \/ /\ cmd.pc = "idle"
       /\ \E method \in ReadMethods : \E a \in ReadArgs(method) : ReadCall(method, a)
    \/ ReadSend
    \/ \E resp \in ReadResponses : ReadAnswer(resp)
    \/ ReadReturn

SpecRead == InitRead /\ [][NextRead]_vars

----------------------------------------------------------------------------
(* The aggregator: JudoLeakguardApi.fetch_all and _collect_rest_data *)

\* bounds on the answers of one poll cycle
MaxJsonHits == 1

MaxSoftFail == 2

MaxAbsent == 1

MetaCandidates == <<"/api/device", "/device", "/api/info", "/info">>

StatusCandidates ==
    <<"/api/status", "/api/live", "/api/values", "/status", "/live", "/values",
      "/zewa/status", "/zewa/live", "/judo/leakguard/status">>

CounterCandidates == <<"/api/counters", "/counters">>

\* the order in which fetch_all walks the JSON endpoints
JsonPlan == MetaCandidates \o StatusCandidates \o CounterCandidates

JsonGroup(i) ==
    IF i <= Len(MetaCandidates) THEN "meta"
    ELSE IF i <= Len(MetaCandidates) + Len(StatusCandidates) THEN "status"
    ELSE "counters"

\* the order in which _collect_rest_data issues the command reads
ReadPlan ==
    <<"read_sleep_duration", "read_absence_limits", "read_microleak_mode",
      "read_vacation_type", "read_learn_status", "read_device_time",
      "read_device_type", "read_serial_number", "read_firmware_version",
      "read_installation_timestamp", "read_total_water", "read_day_stats",
      "read_week_stats", "read_month_stats", "read_year_stats">>

\* the keys a read stores in data when it yields a value
Fields(read) ==
    CASE read = "read_sleep_duration" -> {"sleep_hours"}
      [] read = "read_absence_limits" ->
            {"absence_flow_l_h", "absence_volume_l", "absence_duration_min"}
      [] read = "read_microleak_mode" -> {"microleak_mode"}
      [] read = "read_vacation_type" -> {"vacation_type"}
      [] read = "read_learn_status" ->
            {"learn_active", "learn_remaining_l", "learn_remaining_m3"}
      [] read = "read_device_time" ->
            {"device_time_day", "device_time_month", "device_time_year",
             "device_time_hour", "device_time_minute", "device_time_second",
             "device_time", "device_time_datetime"}
      [] read = "read_device_type" ->
            {"device_type_code", "device_type_hex", "device_type_label"}
      [] read = "read_serial_number" -> {"serial"}
      [] read = "read_firmware_version" -> {"firmware", "sw_version"}
      [] read = "read_installation_timestamp" ->
            {"installation_timestamp", "installation_datetime"}
      [] read = "read_total_water" -> {"total_water_l", "total_water_m3"}
      [] read = "read_day_stats" -> {"daily_usage_l", "daily_usage_m3"}
      [] read = "read_week_stats" -> {"weekly_usage_l", "weekly_usage_m3"}
      [] read = "read_month_stats" -> {"monthly_usage_l", "monthly_usage_m3"}
      [] OTHER -> {"yearly_usage_l", "yearly_usage_m3"}

\* maps are functions from keys to values; a nested map is written with dotted
\* keys ("meta.serial"); a value is the name of the source it came from
EmptyMap == [k \in {} |-> ""]

MapOf(keys, value) == [k \in keys |-> value]

\* the dotted keys of this model that lie under a key
Nested(k) ==
    CASE k = "meta" -> {"meta.serial", "meta.model"}
      [] k = "counters" -> {"counters.total_water_l"}
      [] OTHER -> {}

\* _deep_merge: the right map wins key by key, nested maps are merged; a value
\* that is no map replaces a nested map, and a nested map replaces such a value
DeepMerge(left, right) ==
    LET kept == {k \in DOMAIN left :
                    \A r \in DOMAIN right : k \notin Nested(r) /\ r \notin Nested(k)}
    IN [k \in kept \cup DOMAIN right |->
            IF k \in DOMAIN right THEN right[k] ELSE left[k]]

\* what an endpoint of each group answers when it has an object: fetch_all wraps
\* it under "meta" or "counters", or merges it at the top level
JsonObject(group) ==
    CASE group = "meta" -> MapOf({"meta.serial", "meta.model"}, "meta")
      [] group = "status" -> MapOf({"serial", "total_water_l"}, "status")
      [] OTHER -> MapOf({"counters.total_water_l"}, "counters")

\* what fetch_all merges when json.loads gave a value that is no object but is
\* true in "if js" (a list with elements, a number other than 0, a text, true):
\* wrapped under "meta" or "counters", or, for a status endpoint, handed to
\* _deep_merge as it is, which calls its items()
JsonList(group) ==
    CASE group = "meta" -> Effect("return", "", MapOf({"meta"}, "list"))
      [] group = "status" -> Effect("raise", "AttributeError", EmptyMap)
      [] OTHER -> Effect("return", "", MapOf({"counters"}, "list"))

\* what _fetch_json gives fetch_all, by the answer of the endpoint:
\*   "absent" (404, other 4xx/5xx, empty body, invalid JSON, and JSON values
\*   that are false in "if js": null, 0, [], ""), "object", "list" (valid JSON
\*   that is no object and is true), "auth" (401/403), "transport" (timeout,
\*   connect failure)
JsonAnswers == {"absent", "object", "list", "auth", "transport"}

FetchJsonResult(answer) ==
    CASE answer = "auth" -> Effect("raise", "JudoAuthenticationError", "")
      [] answer = "transport" -> Effect("raise", "JudoConnectionError", "")
      [] answer = "object" -> Effect("return", "", "object")
      [] answer = "list" -> Effect("return", "", "list")
      [] OTHER -> Effect("return", "", "None")

\* what the device answers to a command read:
\*   "data" (a well-formed payload), "nothing" (404, 4xx/5xx, empty body or a
\*   payload too short), "badhex" (a data field that is not hex), "auth",
\*   "transport", "zero" (a well-formed payload of zero bytes: a value that
\*   Python tests as false)
ReadAnswers == {"data", "zero", "nothing", "badhex", "auth", "transport"}

\* the value a read stores for its keys: values are named after their source,
\* and "0" is the value that is false in a test for truth
Zero == "0"

StoredValue(read, value) == IF value = "zero" THEN Zero ELSE read

\* _rest_bytes with allow_empty=True, on the result of _rest_request
RestBytes(answer) ==
    CASE answer = "auth" -> Effect("raise", "JudoAuthenticationError", "")
      [] answer = "transport" -> Effect("raise", "JudoConnectionError", "")
      [] answer = "nothing" -> Effect("return", "", "empty")
      [] answer = "badhex" -> Effect("raise", "JudoApiError", "")
      [] OTHER -> Effect("return", "", "bytes")

\* a read_* method: None (or no values) for an empty or short payload
ReadResult(answer) ==
    LET b == RestBytes(answer) IN
    IF b.act = "raise" THEN b
    ELSE IF b.value = "empty" THEN Effect("return", "", "None")
    ELSE IF answer = "zero" THEN Effect("return", "", "zero")
    ELSE Effect("return", "", "value")

\* the except clauses around each read in _collect_rest_data
CollectExceptSwallowsAll(exc) == "skip"

CollectExceptRaisesAll(exc) == "raise"

CollectExcept(exc) ==
    IF exc \in {"JudoAuthenticationError", "JudoConnectionError"} THEN "raise"
    ELSE "skip"

\* _normalize, for the keys the endpoints of this model carry; has(k) is the
\* test "norm.get(k)" for truth
Normalize(data) ==
    IF DOMAIN data = {} THEN data
    ELSE
      LET has(k) == k \in DOMAIN data /\ data[k] /= Zero
          withM3 ==
            IF ~has("total_water_m3") /\ ~has("counters.total_water_m3")
               /\ (has("total_water_l") \/ has("counters.total_water_l"))
            THEN DeepMerge(data, MapOf({"total_water_m3"}, "derived"))
            ELSE data
          withModel ==
            IF ~has("model") /\ has("meta.model")
            THEN DeepMerge(withM3, MapOf({"model"}, data["meta.model"]))
            ELSE withM3
      IN IF ~has("serial") /\ has("meta.serial")
         THEN DeepMerge(withModel, MapOf({"serial"}, data["meta.serial"]))
         ELSE withModel

\* _normalize raises AttributeError when it calls get() on a value that is no
\* map: norm.get("counters", {}) is read when total_water_m3 is missing or
\* false, norm.get("meta", {}) when manufacturer and brand are
NormalizeRaises(data) ==
    LET has(k) == k \in DOMAIN data /\ data[k] /= Zero
    IN /\ DOMAIN data /= {}
       /\ \/ "counters" \in DOMAIN data /\ ~has("total_water_m3")
          \/ "meta" \in DOMAIN data

\* JudoLeakguardCoordinator._async_update_data on what fetch_all gave it: an
\* exception, or an empty result, becomes UpdateFailed
UpdateDataAcceptsEmpty(entry, outcome, snapshot) ==
    IF entry /= "fetch_all" THEN "pending"
    ELSE IF outcome /= "return" THEN "UpdateFailed"
    ELSE "data"

UpdateData(entry, outcome, snapshot) ==
    IF entry /= "fetch_all" THEN "pending"
    ELSE IF outcome /= "return" THEN "UpdateFailed"
    ELSE IF DOMAIN snapshot = {} THEN "UpdateFailed"
    ELSE "data"

\* the answers explored for one more command read: few reads are absent or fail
\* softly among reads that yield values, and a cycle in which no read has
\* yielded anything is followed to its end; the zero value is explored for the
\* read whose keys _normalize tests for truth
WithinReadBounds(answer) ==
    /\ answer = "zero" => ReadPlan[agg.idx] = "read_total_water"
    /\ answer = "badhex" => Cardinality(agg.soft_failed) < MaxSoftFail
    /\ answer = "nothing" =>
          \/ Cardinality(agg.absent) < MaxAbsent
          \/ agg.produced = {} /\ agg.soft_failed = {}

IdleAgg ==
    [pc |-> "idle", entry |-> "", idx |-> 0, merged |-> EmptyMap,
     rest_data |-> EmptyMap, sent |-> <<>>, outcome |-> "pending",
     snapshot |-> EmptyMap,
     hits |-> 0, produced |-> {}, soft_failed |-> {}, absent |-> {},
     zeros |-> {}, lists |-> {}, fatal_at |-> 0, fatal_exc |-> "", update |-> "pending"]

InitAgg ==
    /\ client = "judo"
    /\ max_attempts = JudoMaxAttempts
    /\ holders = {}
    /\ waiters = <<>>
    /\ active = 0
    /\ req = [c \in Callers |-> IdleFrame]
    /\ agg = IdleAgg
    /\ session = SharedSession
    /\ cmd = NoCmd

\* the coordinator polls: fetch_all starts with the first meta endpoint
FetchAllStart ==
    /\ agg.pc = "idle"
    /\ agg' = [IdleAgg EXCEPT !.pc = "json", !.entry = "fetch_all", !.idx = 1]
    /\ UNCHANGED <<client, holders, waiters, active, req, max_attempts, session, cmd>>

\* _collect_rest_data called on its own
CollectStart ==
    /\ agg.pc = "idle"
    /\ agg' = [IdleAgg EXCEPT !.pc = "rest", !.entry = "_collect_rest_data", !.idx = 1]
    /\ UNCHANGED <<client, holders, waiters, active, req, max_attempts, session, cmd>>

\* the three for loops of fetch_all: after endpoint idx comes the next
\* candidate, whatever the endpoint gave; there is no break
NextJsonSkipsGroup(idx, value) ==
    IF value /= "object" THEN idx + 1
    ELSE IF JsonGroup(idx) = "meta" THEN Len(MetaCandidates) + 1
    ELSE IF JsonGroup(idx) = "status" THEN Len(MetaCandidates) + Len(StatusCandidates) + 1
    ELSE Len(JsonPlan) + 1

NextJson(idx, value) == idx + 1

\* one "js = await self._fetch_json(endpoint)" of fetch_all and its merge
FetchJson(answer) ==
    /\ agg.pc = "json"
    /\ answer \in JsonAnswers
    /\ answer \in {"object", "list"} => agg.hits < MaxJsonHits
    /\ LET r == FetchJsonResult(answer)
           group == JsonGroup(agg.idx)
           sent == Append(agg.sent, JsonPlan[agg.idx])
           nxt == NextJson(agg.idx, r.value)
           js == IF r.value = "list" THEN JsonList(group)
                 ELSE Effect("return", "", JsonObject(group))
       IN IF r.act = "raise"
          THEN agg' = [agg EXCEPT !.pc = "done", !.sent = sent, !.outcome = r.exc,
                                  !.fatal_at = Len(sent), !.fatal_exc = r.exc,
                                  !.update = UpdateData(agg.entry, r.exc, EmptyMap)]
          ELSE IF r.value = "list" /\ js.act = "raise"
          THEN \* _deep_merge(merged, js) raises inside fetch_all
               agg' = [agg EXCEPT !.pc = "done", !.sent = sent, !.outcome = js.exc,
                                  !.hits = @ + 1, !.lists = @ \cup {group},
                                  !.update = UpdateData(agg.entry, js.exc, EmptyMap)]
          ELSE agg' = [agg EXCEPT
                         !.sent = sent,
                         !.hits = IF r.value \in {"object", "list"} THEN @ + 1 ELSE @,
                         !.lists = IF r.value = "list" THEN @ \cup {group} ELSE @,
                         !.merged = IF r.value \in {"object", "list"}
                                    THEN DeepMerge(@, js.value)
                                    ELSE @,
                         !.pc = IF nxt > Len(JsonPlan) THEN "rest" ELSE "json",
                         !.idx = IF nxt > Len(JsonPlan) THEN 1 ELSE nxt]
    /\ UNCHANGED <<client, holders, waiters, active, req, max_attempts, session, cmd>>

\* what the caller of _collect_rest_data gets once the last read is handled;
\* in fetch_all: the merge of rest_data, _normalize and the final update
FinishWithoutUpdate(entry, merged, rest_data) ==
    IF entry = "_collect_rest_data" THEN rest_data
    ELSE LET m == IF DOMAIN rest_data /= {} THEN DeepMerge(merged, rest_data) ELSE merged
         IN IF DOMAIN m = {} THEN EmptyMap
            ELSE Normalize(m)

Finish(entry, merged, rest_data) ==
    IF entry = "_collect_rest_data" THEN rest_data
    ELSE LET m == IF DOMAIN rest_data /= {} THEN DeepMerge(merged, rest_data) ELSE merged
         IN IF DOMAIN m = {} THEN EmptyMap
            ELSE DeepMerge(Normalize(m), rest_data)

\* one try block of _collect_rest_data: the read, the update of data, the
\* except clauses; after the last one the function returns
ReadCmd(answer) ==
    /\ agg.pc = "rest"
    /\ answer \in ReadAnswers
    /\ WithinReadBounds(answer)
    /\ LET read == ReadPlan[agg.idx]
           r == ReadResult(answer)
           sent == Append(agg.sent, read)
           last == agg.idx = Len(ReadPlan)
           data == IF r.act = "return" /\ r.value \in {"value", "zero"}
                   THEN DeepMerge(agg.rest_data,
                                  MapOf(Fields(read), StoredValue(read, r.value)))
                   ELSE agg.rest_data
           fatal == answer \in {"auth", "transport"}
           snapshot == Finish(agg.entry, agg.merged, data)
           \* self._normalize(merged) in fetch_all
           broken == /\ agg.entry = "fetch_all"
                     /\ NormalizeRaises(IF DOMAIN data /= {}
                                        THEN DeepMerge(agg.merged, data)
                                        ELSE agg.merged)
           \* the request is sent and answered
           seen == [agg EXCEPT
                      !.sent = sent,
                      !.produced = IF answer = "data" THEN @ \cup {read} ELSE @,
                      !.zeros = IF answer = "zero" THEN @ \cup {read} ELSE @,
                      !.absent = IF answer = "nothing" THEN @ \cup {read} ELSE @,
                      !.soft_failed = IF answer = "badhex" THEN @ \cup {read} ELSE @,
                      !.fatal_at = IF fatal THEN Len(sent) ELSE @,
                      !.fatal_exc = IF fatal THEN r.exc ELSE @]
       IN IF r.act = "raise" /\ CollectExcept(r.exc) = "raise"
          THEN agg' = [seen EXCEPT !.pc = "done", !.outcome = r.exc,
                                   !.update = UpdateData(agg.entry, r.exc, EmptyMap)]
          ELSE IF last /\ broken
          THEN agg' = [seen EXCEPT
                         !.rest_data = data, !.pc = "done",
                         !.outcome = "AttributeError",
                         !.update = UpdateData(agg.entry, "AttributeError", EmptyMap)]
          ELSE agg' = [seen EXCEPT
                         !.rest_data = data,
                         !.idx = IF last THEN @ ELSE @ + 1,
                         !.pc = IF last THEN "done" ELSE "rest",
                         !.outcome = IF last THEN "return" ELSE @,
                         !.snapshot = IF last THEN snapshot ELSE @,
                         !.update = IF last THEN UpdateData(agg.entry, "return", snapshot)
                                    ELSE @]
    /\ UNCHANGED <<client, holders, waiters, active, req, max_attempts, session, cmd>>

\* the caller has its snapshot or its exception; the next poll starts afresh
AggReturn ==
    /\ agg.pc = "done"
    /\ agg' = IdleAgg
    /\ UNCHANGED <<client, holders, waiters, active, req, max_attempts, session, cmd>>

NextAgg ==
    \/ FetchAllStart
    \/ CollectStart
    \/ \E answer \in JsonAnswers : FetchJson(answer)
    \/ \E answer \in ReadAnswers : ReadCmd(answer)
    \/ AggReturn

SpecAgg == InitAgg /\ [][NextAgg]_vars

----------------------------------------------------------------------------
(* JudoClient's response parser: _parse_rest_text and _extract_data_field *)

\* the longest hex string explored, in characters
MaxHexLen == 3

\* hex strings of digits with and without a leading zero, of an upper-case
\* letter that can also be read as an exponent, and of a lower-case letter
HexStrings == UNION {[1..n -> {"0", "1", "E", "a"}] : n \in 1..MaxHexLen}

\* the characters of a key or of another fixed piece of text
Word(name) ==
    CASE name = "data" -> <<"d", "a", "t", "a">>
      [] name = "Data" -> <<"D", "a", "t", "a">>
      [] name = "DATA" -> <<"D", "A", "T", "A">>
      [] name = "value" -> <<"v", "a", "l", "u", "e">>
      [] name = "Value" -> <<"V", "a", "l", "u", "e">>
      [] name = "raw" -> <<"r", "a", "w">>
      [] name = "data=" -> <<"d", "a", "t", "a", "=">>
      [] name = "x=1&value=" -> <<"x", "=", "1", "&", "v", "a", "l", "u", "e", "=">>
      [] OTHER -> <<>>

ParseForms == {"object", "list", "form", "bare", "pairs", "empty"}

\* the response body of each form that carries the hex string h:
\*   {"data": "h"}   [{"data": "h"}]   data=h   h   x=1&value=h   and ""
TextOf(form, h) ==
    LET object == <<"{", "\"">> \o Word("data") \o <<"\"", ":", " ", "\"">> \o h
                      \o <<"\"", "}">>
    IN CASE form = "object" -> object
         [] form = "list" -> <<"[">> \o object \o <<"]">>
         [] form = "form" -> Word("data=") \o h
         [] form = "bare" -> h
         [] form = "pairs" -> Word("x=1&value=") \o h
         [] OTHER -> <<>>

\* str.split(sep): the parts of the text between the separators
RECURSIVE SplitOn(_, _)
SplitOn(text, sep) ==
    IF \A i \in DOMAIN text : text[i] /= sep THEN <<text>>
    ELSE LET at == CHOOSE i \in DOMAIN text :
                       text[i] = sep /\ \A j \in 1..(i - 1) : text[j] /= sep
         IN <<SubSeq(text, 1, at - 1)>> \o SplitOn(SubSeq(text, at + 1, Len(text)), sep)

\* json.loads on the texts above: an object with one string member, a list of
\* one value, a number (digits without a leading zero, with or without an
\* exponent), or JSONDecodeError
RECURSIVE JsonLoadsText(_)
JsonLoadsText(text) ==
    LET n == Len(text)
        quotes == {i \in DOMAIN text : text[i] = "\""}
        Nth(k) == CHOOSE i \in quotes : Cardinality({j \in quotes : j < i}) = k - 1
        Digits(t) == t /= <<>> /\ \A i \in DOMAIN t : t[i] \in {"0", "1"}
        Integer(t) == Digits(t) /\ (t[1] /= "0" \/ Len(t) = 1)
        parts == SplitOn([i \in DOMAIN text |-> IF text[i] = "e" THEN "E" ELSE text[i]],
                         "E")
        error == [kind |-> "JSONDecodeError", object |-> EmptyMap]
    IN IF n >= 2 /\ text[1] = "{" /\ text[n] = "}"
       THEN IF /\ Cardinality(quotes) = 4
               /\ Nth(1) = 2 /\ Nth(4) = n - 1
               /\ SubSeq(text, Nth(2) + 1, Nth(3) - 1) = <<":", " ">>
            THEN [kind |-> "dict",
                  object |-> MapOf({SubSeq(text, Nth(1) + 1, Nth(2) - 1)},
                                   SubSeq(text, Nth(3) + 1, Nth(4) - 1))]
            ELSE error
       ELSE IF n >= 2 /\ text[1] = "[" /\ text[n] = "]"
       THEN LET first == JsonLoadsText(SubSeq(text, 2, n - 1)) IN
            IF first.kind = "JSONDecodeError" THEN error
            ELSE [kind |-> "list", object |-> first.object]
       ELSE IF \/ Integer(text)
               \/ Len(parts) = 2 /\ Integer(parts[1]) /\ Digits(parts[2])
       THEN [kind |-> "number", object |-> EmptyMap]
       ELSE error

\* JudoClient._parse_rest_text: the dict it returns, keys and values as texts
ParseRestText(text) ==
    LET js == JsonLoadsText(text)
        parts == SplitOn(text, "&")
        pairs == {i \in DOMAIN parts : \E j \in DOMAIN parts[i] : parts[i][j] = "="}
        KeyOf(i) == SplitOn(parts[i], "=")[1]
        ValueOf(i) == SubSeq(parts[i], Len(KeyOf(i)) + 2, Len(parts[i]))
        \* a later part with the same key overwrites an earlier one
        Last(k) == CHOOSE i \in pairs : KeyOf(i) = k /\ \A j \in pairs : KeyOf(j) = k => j <= i
    IN IF text = <<>> THEN EmptyMap
       ELSE IF js.kind = "dict" THEN js.object
       ELSE IF StartsWith([i \in DOMAIN text |->
                              IF text[i] \in {"D", "A", "T"}
                              THEN Word("data")[CHOOSE j \in 1..4 : Word("DATA")[j] = text[i]]
                              ELSE text[i]],
                          Word("data="))
       THEN MapOf({Word("data")}, SubSeq(text, Len(Word("data=")) + 1, Len(text)))
       ELSE IF pairs /= {}
       THEN [k \in {KeyOf(i) : i \in pairs} |-> ValueOf(Last(k))]
       ELSE MapOf({Word("raw")}, text)

\* JudoClient._extract_data_field: the text it returns, or None
ExtractDataFieldNamedKeysOnly(payload) ==
    LET keys == <<Word("data"), Word("Data"), Word("DATA"), Word("value"), Word("Value")>>
        found == {i \in DOMAIN keys : keys[i] \in DOMAIN payload}
        first == CHOOSE i \in found : \A j \in found : i <= j
    IN IF found /= {} THEN [none |-> FALSE, text |-> payload[keys[first]]]
       ELSE [none |-> TRUE, text |-> <<>>]

ExtractDataField(payload) ==
    LET keys == <<Word("data"), Word("Data"), Word("DATA"), Word("value"), Word("Value")>>
        found == {i \in DOMAIN keys : keys[i] \in DOMAIN payload}
        first == CHOOSE i \in found : \A j \in found : i <= j
        raw == payload[Word("raw")]
    IN IF found /= {} THEN [none |-> FALSE, text |-> payload[keys[first]]]
       ELSE IF /\ Word("raw") \in DOMAIN payload
               /\ raw /= <<>>
               /\ \A i \in DOMAIN raw : raw[i] \in HexChars \cup {"a", "b", "c", "d", "e", "f"}
       THEN [none |-> FALSE, text |-> raw]
       ELSE [none |-> TRUE, text |-> <<>>]

\* a response body is parsed and the data field is taken from the result
InitParse ==
    /\ client = "judo"
    /\ max_attempts = JudoMaxAttempts
    /\ holders = {}
    /\ waiters = <<>>
    /\ active = 0
    /\ req = [c \in {Commander} |-> IdleFrame]
    /\ agg = NoAgg
    /\ session = SharedSession
    /\ cmd \in {[pc |-> "text", form |-> form, hex |-> h, text |-> TextOf(form, h),
                 parsed |-> EmptyMap, data |-> [none |-> TRUE, text |-> <<>>]] :
                    form \in ParseForms, h \in HexStrings}

ParseText ==
    /\ cmd.pc = "text"
    /\ cmd' = [cmd EXCEPT !.pc = "parsed", !.parsed = ParseRestText(cmd.text)]
    /\ UNCHANGED <<client, holders, waiters, active, req, max_attempts, agg, session>>

ExtractData ==
    /\ cmd.pc = "parsed"
    /\ cmd' = [cmd EXCEPT !.pc = "extracted", !.data = ExtractDataField(cmd.parsed)]
    /\ UNCHANGED <<client, holders, waiters, active, req, max_attempts, agg, session>>

NextParse == ParseText \/ ExtractData

SpecParse == InitParse /\ [][NextParse]_vars

----------------------------------------------------------------------------
(* The binary codec: zewa_client.hex and the integration's helpers *)

\* A Python integer is written <<hi, lo>> for hi * 65536 + lo with lo in
\* 0..65535, so that all of 0..2^32-1, and numbers below and above it, can be
\* told apart; hi is negative for a negative number.
Limbs == {0, 1, 255, 256, 32767, 32768, 65279, U16Max}

CodecInputs ==
    [lib : {"hex"}, bits : {8}, value : {<<0, lo>> : lo \in 0..(U8Max + 1)}]
    \cup [lib : {"hex", "helpers"}, bits : {16},
          value : {<<hi, lo>> : hi \in {-1, 0, 1}, lo \in Limbs}]
    \cup [lib : {"hex", "helpers"}, bits : {32},
          value : {<<hi, lo>> : hi \in Limbs \cup {-1, U16Max + 1}, lo \in Limbs}]

\* 0 <= value <= (1 << bits) - 1
Fits(value, bits) ==
    IF bits = 32 THEN value[1] >= 0 /\ value[1] <= U16Max
    ELSE value[1] = 0 /\ value[2] <= 2^bits - 1

\* to_u8 / to_u16be / to_u32be of zewa_client.hex, which raise ValueError out of
\* range, and toU16BE / toU32BE of helpers, which clamp: value.to_bytes(n, "big")
Encode(lib, bits, value) ==
    LET clamped == IF value[1] < 0 THEN <<0, 0>>
                   ELSE IF ~Fits(value, bits)
                   THEN (IF bits = 32 THEN <<U16Max, U16Max>> ELSE <<0, 2^bits - 1>>)
                   ELSE value
        v == IF lib = "helpers" THEN clamped ELSE value
        bytes == U16Bytes(v[1]) \o U16Bytes(v[2])
    IN IF lib = "hex" /\ ~Fits(value, bits) THEN Effect("raise", "ValueError", <<>>)
       ELSE Effect("return", "", SubSeq(bytes, 5 - bits \div 8, 4))

\* int.from_bytes(data[offset : offset + n], "big") after the check of the length
FromBytesLittleEndian(lib, bits, data, offset) ==
    LET n == bits \div 8
        b == SubSeq(data, offset + 1, offset + n)
        padded == [i \in 1..4 |-> IF i <= n THEN b[i] ELSE 0]
    IN IF Len(data) < offset + n \/ offset < 0 THEN Effect("raise", "ValueError", <<>>)
       ELSE Effect("return", "", <<padded[4] * 256 + padded[3], padded[2] * 256 + padded[1]>>)

FromBytes(lib, bits, data, offset) ==
    LET n == bits \div 8
        b == SubSeq(data, offset + 1, offset + n)
        padded == [i \in 1..4 |-> IF i <= 4 - n THEN 0 ELSE b[i - (4 - n)]]
        short == IF lib = "hex" THEN offset < 0 \/ Len(data) < offset + n
                 ELSE offset + n > Len(data)
    IN IF short THEN Effect("raise", "ValueError", <<>>)
       ELSE Effect("return", "", <<padded[1] * 256 + padded[2], padded[3] * 256 + padded[4]>>)

InitCodec ==
    /\ client \in {"zewa", "judo"}
    /\ max_attempts = (IF client = "zewa" THEN ZewaMaxAttempts ELSE JudoMaxAttempts)
    /\ holders = {}
    /\ waiters = <<>>
    /\ active = 0
    /\ req = [c \in {Commander} |-> IdleFrame]
    /\ agg = NoAgg
    /\ session = SharedSession
    /\ cmd \in {[pc |-> "value", lib |-> in.lib, bits |-> in.bits, value |-> in.value,
                 bytes |-> <<>>, outcome |-> "pending", result |-> <<>>] :
                    in \in {i \in CodecInputs :
                               i.lib = (IF client = "zewa" THEN "hex" ELSE "helpers")}}

\* the value is encoded
EncodeValue ==
    /\ cmd.pc = "value"
    /\ LET e == Encode(cmd.lib, cmd.bits, cmd.value)
       IN cmd' = IF e.act = "raise"
                 THEN [cmd EXCEPT !.pc = "decoded", !.outcome = e.exc]
                 ELSE [cmd EXCEPT !.pc = "encoded", !.bytes = e.value]
    /\ UNCHANGED <<client, holders, waiters, active, req, max_attempts, agg, session>>

\* the bytes are decoded again, from offset 0
DecodeBytes ==
    /\ cmd.pc = "encoded"
    /\ LET d == FromBytes(cmd.lib, cmd.bits, cmd.bytes, 0)
       IN cmd' = [cmd EXCEPT !.pc = "decoded",
                             !.outcome = IF d.act = "raise" THEN d.exc ELSE "return",
                             !.result = d.value]
    /\ UNCHANGED <<client, holders, waiters, active, req, max_attempts, agg, session>>

NextCodec == EncodeValue \/ DecodeBytes

SpecCodec == InitCodec /\ [][NextCodec]_vars

----------------------------------------------------------------------------
(* The integration's config entries and its domain services                *)

\* how many config entries exist
NumEntries == 3

DomainServices == {"set_datetime", "set_absence_schedule", "clear_absence_schedule"}

\* _async_register_services: nothing when set_datetime is registered already
RegisterServices(services) ==
    IF "set_datetime" \in services THEN services ELSE services \cup DomainServices

\* _unregister_services: each of the three is removed if it is there
UnregisterServices(services) == services \ DomainServices

\* a variant that removes the services whenever an entry is unloaded
UnloadStoreAlwaysUnregisters(entries, services, e) ==
    [entries |-> entries \ {e}, services |-> UnregisterServices(services)]

\* async_unload_entry after the platforms were unloaded: the entry is popped,
\* and the services are removed when no entry is left
UnloadStore(entries, services, e) ==
    LET domain_entries == entries \ {e}
    IN [entries |-> domain_entries,
        services |-> IF domain_entries = {}
                     THEN UnregisterServices(services) ELSE services]

InitServices ==
    /\ client = "judo"
    /\ max_attempts = JudoMaxAttempts
    /\ holders = {}
    /\ waiters = <<>>
    /\ active = 0
    /\ req = [c \in {Commander} |-> IdleFrame]
    /\ agg = NoAgg
    /\ session = SharedSession
    /\ cmd = [pc |-> "hass", entries |-> {}, services |-> {},
              state |-> [e \in 1..NumEntries |-> "not_loaded"],
              clean |-> TRUE, last |-> <<"none", 0>>]

\* async_setup_entry up to its first await: False without host or
\* credentials, else the coordinator's first refresh is awaited
SetupBegin(e, configured) ==
    /\ cmd.pc = "hass"
    /\ cmd.state[e] \in {"not_loaded", "failed"}
    /\ cmd' = IF configured
              THEN [cmd EXCEPT !.state[e] = "refreshing", !.last = <<"setup_begin", e>>]
              ELSE [cmd EXCEPT !.last = <<"setup_false", e>>]
    /\ UNCHANGED <<client, holders, waiters, active, req, max_attempts, agg, session>>

\* the first refresh is over: it raised, or the entry is stored and the
\* services are registered, and the platforms' setup is awaited
SetupRefreshed(e, ok) ==
    /\ cmd.pc = "hass"
    /\ cmd.state[e] = "refreshing"
    /\ cmd' = IF ok
              THEN [cmd EXCEPT !.state[e] = "forwarding",
                               !.entries = @ \cup {e},
                               !.services = RegisterServices(@),
                               !.last = <<"stored", e>>]
              ELSE [cmd EXCEPT !.state[e] = "not_loaded",
                               !.last = <<"not_ready", e>>]
    /\ UNCHANGED <<client, holders, waiters, active, req, max_attempts, agg, session>>

\* the platforms' setup is over: True is returned, or it raised
SetupForwarded(e, ok) ==
    /\ cmd.pc = "hass"
    /\ cmd.state[e] = "forwarding"
    /\ cmd' = IF ok
              THEN [cmd EXCEPT !.state[e] = "loaded", !.last = <<"setup", e>>]
              ELSE [cmd EXCEPT !.state[e] = "failed", !.clean = FALSE,
                               !.last = <<"setup_error", e>>]
    /\ UNCHANGED <<client, holders, waiters, active, req, max_attempts, agg, session>>

\* async_unload_entry up to its await
UnloadBegin(e) ==
    /\ cmd.pc = "hass"
    /\ cmd.state[e] = "loaded"
    /\ cmd' = [cmd EXCEPT !.state[e] = "unloading", !.last = <<"unload_begin", e>>]
    /\ UNCHANGED <<client, holders, waiters, active, req, max_attempts, agg, session>>

\* the platforms' unload is over
UnloadEnd(e, unload_ok) ==
    /\ cmd.pc = "hass"
    /\ cmd.state[e] = "unloading"
    /\ cmd' = IF unload_ok
              THEN LET s == UnloadStore(cmd.entries, cmd.services, e)
                   IN [cmd EXCEPT !.state[e] = "not_loaded",
                                  !.entries = s.entries,
                                  !.services = s.services,
                                  !.last = <<"unload", e>>]
              ELSE [cmd EXCEPT !.state[e] = "loaded", !.last = <<"unload_failed", e>>]
    /\ UNCHANGED <<client, holders, waiters, active, req, max_attempts, agg, session>>

NextServices ==
    \/ \E e \in 1..NumEntries, configured \in BOOLEAN : SetupBegin(e, configured)
    \/ \E e \in 1..NumEntries, ok \in BOOLEAN : SetupRefreshed(e, ok)
    \/ \E e \in 1..NumEntries, ok \in BOOLEAN : SetupForwarded(e, ok)
    \/ \E e \in 1..NumEntries : UnloadBegin(e)
    \/ \E e \in 1..NumEntries, unload_ok \in BOOLEAN : UnloadEnd(e, unload_ok)

SpecServices == InitServices /\ [][NextServices]_vars

----------------------------------------------------------------------------
(* The ZEWA integration: the coordinator's poll, the number entities for   *)
(* the absence limits and the optimistic switches, all on one ZewaClient   *)

\* the reads of one poll, in the order asyncio.gather is given them
PollReads ==
    <<"get_device_type", "get_serial", "get_fw_version", "get_commission_date",
      "get_total_water_l", "get_sleep_hours", "read_absence_limits",
      "get_vacation_type", "get_micro_leak_mode", "get_clock", "get_learn_status">>

\* how a request of the client ends for its caller
ClientOutcomes == {"return", "ZewaAuthenticationError", "ZewaConnectionError"}

\* the reads of a poll whose failure is followed: the first, the one in the
\* middle that reads the absence limits, and the last
FailingReads == {"get_device_type", "read_absence_limits", "get_learn_status"}

\* the except clauses of _async_update_data
PollExcept(exc) ==
    IF exc = "ZewaAuthenticationError" THEN "ConfigEntryAuthFailed" ELSE "UpdateFailed"

\* _set_absence_limit: the three limits of coordinator.data, one replaced
AbsenceKwargs(limits, field, value) == [limits EXCEPT ![field] = value]

\* a variant that sets the attribute whether or not the command raised
SetAttrAlways(runtime, attr, target, outcome) == [runtime EXCEPT ![attr] = target]

\* async_turn_on / async_turn_off: the command is awaited, then setattr
SetAttr(runtime, attr, target, outcome) ==
    IF outcome = "return" THEN [runtime EXCEPT ![attr] = target] ELSE runtime

IdlePoll == [pc |-> "idle", idx |-> 0, limits |-> <<>>, outcome |-> "none", raised_at |-> 0]

IdleSet == [pc |-> "idle", kwargs |-> <<>>, outcome |-> "pending"]

IdleSwitch ==
    [pc |-> "idle", attr |-> "", target |-> FALSE, before |-> FALSE, outcome |-> "pending"]

\* the entities exist after a first refresh: data holds the device's limits;
\* queue is the order in which the requests reach the client's gate
InitHa ==
    /\ client = "zewa"
    /\ max_attempts = ZewaMaxAttempts
    /\ holders = {}
    /\ waiters = <<>>
    /\ active = 0
    /\ req = [c \in {Commander} |-> IdleFrame]
    /\ agg = NoAgg
    /\ session = SharedSession
    /\ cmd = [pc |-> "ha",
              device |-> [flow_l_h |-> 10, volume_l |-> 20, duration_min |-> 40],
              data |-> [flow_l_h |-> 10, volume_l |-> 20, duration_min |-> 40],
              runtime |-> [valve_open |-> FALSE, sleep_mode |-> FALSE,
                           vacation_mode |-> FALSE],
              queue |-> <<>>,
              poll |-> IdlePoll,
              set |-> [f \in {"flow_l_h", "volume_l"} |-> IdleSet],
              sw |-> IdleSwitch]

\* _async_update_data begins: gather starts the eleven reads, which reach the
\* gate one behind the other
PollStart ==
    /\ cmd.pc = "ha"
    /\ cmd.poll.pc = "idle"
    /\ cmd' = [cmd EXCEPT !.poll = [IdlePoll EXCEPT !.pc = "running",
                                                    !.outcome = "pending"],
                          !.queue = Append(@, "poll")]
    /\ UNCHANGED <<client, holders, waiters, active, req, max_attempts, agg, session>>

\* the next read of the poll is sent and ends: the first one that raises ends
\* _async_update_data, the reads behind it stay at the gate; when all have
\* returned, the coordinator's data is replaced
PollRead(outcome) ==
    /\ cmd.pc = "ha"
    /\ cmd.queue /= <<>> /\ Head(cmd.queue) = "poll"
    /\ outcome /= "return" => PollReads[cmd.poll.idx + 1] \in FailingReads
    /\ LET p == cmd.poll
           idx == p.idx + 1
           last == idx = Len(PollReads)
           limits == IF outcome = "return" /\ PollReads[idx] = "read_absence_limits"
                     THEN cmd.device ELSE p.limits
           first == outcome /= "return" /\ p.outcome = "pending"
           result == IF first THEN PollExcept(outcome)
                     ELSE IF last /\ p.outcome = "pending" THEN "data"
                     ELSE p.outcome
       IN cmd' = [cmd EXCEPT
                    !.poll = [pc |-> IF last THEN "idle" ELSE "running",
                              idx |-> idx, limits |-> limits, outcome |-> result,
                              raised_at |-> IF first THEN idx ELSE p.raised_at],
                    !.data = IF result = "data" THEN limits ELSE @,
                    !.queue = IF last THEN Tail(@) ELSE @]
    /\ UNCHANGED <<client, holders, waiters, active, req, max_attempts, agg, session>>

\* async_set_native_value of the number entity of one limit, up to the await
\* of write_absence_limits
SetValue(field, value) ==
    /\ cmd.pc = "ha"
    /\ cmd.set[field].pc = "idle"
    /\ cmd' = [cmd EXCEPT
                 !.set[field] = [IdleSet EXCEPT
                                   !.pc = "writing",
                                   !.kwargs = AbsenceKwargs(cmd.data, field, value)],
                 !.queue = Append(@, field)]
    /\ UNCHANGED <<client, holders, waiters, active, req, max_attempts, agg, session>>

\* the write is sent and ends: the device holds the three limits written, or
\* the exception ends _set_absence_limit
WriteAnswer(field, outcome) ==
    /\ cmd.pc = "ha"
    /\ cmd.queue /= <<>> /\ Head(cmd.queue) = field
    /\ cmd.set[field].pc = "writing"
    /\ cmd' = [cmd EXCEPT
                 !.device = IF outcome = "return" THEN cmd.set[field].kwargs ELSE @,
                 !.set[field].pc = IF outcome = "return" THEN "written" ELSE "done",
                 !.set[field].outcome = outcome,
                 !.queue = Tail(@)]
    /\ UNCHANGED <<client, holders, waiters, active, req, max_attempts, agg, session>>

\* await entity.coordinator.async_request_refresh(): a poll
RequestRefresh(field) ==
    /\ cmd.pc = "ha"
    /\ cmd.set[field].pc = "written"
    /\ cmd.poll.pc = "idle"
    /\ cmd' = [cmd EXCEPT !.set[field].pc = "done",
                          !.poll = [IdlePoll EXCEPT !.pc = "running",
                                                    !.outcome = "pending"],
                          !.queue = Append(@, "poll")]
    /\ UNCHANGED <<client, holders, waiters, active, req, max_attempts, agg, session>>

\* async_turn_on (target TRUE) or async_turn_off of a switch, up to the await
\* of its command
Turn(attr, target) ==
    /\ cmd.pc = "ha"
    /\ cmd.sw.pc = "idle"
    /\ cmd' = [cmd EXCEPT !.sw = [pc |-> "command", attr |-> attr, target |-> target,
                                  before |-> cmd.runtime[attr], outcome |-> "pending"],
                          !.queue = Append(@, "switch")]
    /\ UNCHANGED <<client, holders, waiters, active, req, max_attempts, agg, session>>

\* the command is sent and ends
CommandAnswer(outcome) ==
    /\ cmd.pc = "ha"
    /\ cmd.queue /= <<>> /\ Head(cmd.queue) = "switch"
    /\ cmd' = [cmd EXCEPT
                 !.runtime = SetAttr(@, cmd.sw.attr, cmd.sw.target, outcome),
                 !.sw.pc = "done",
                 !.sw.outcome = outcome,
                 !.queue = Tail(@)]
    /\ UNCHANGED <<client, holders, waiters, active, req, max_attempts, agg, session>>

\* the switch call is over
TurnReturn ==
    /\ cmd.pc = "ha"
    /\ cmd.sw.pc = "done"
    /\ cmd' = [cmd EXCEPT !.sw = IdleSwitch]
    /\ UNCHANGED <<client, holders, waiters, active, req, max_attempts, agg, session>>

NextHa ==
    \/ PollStart
    \/ \E outcome \in ClientOutcomes : PollRead(outcome)
    \/ SetValue("flow_l_h", 100)
    \/ SetValue("volume_l", 200)
    \/ \E field \in {"flow_l_h", "volume_l"}, outcome \in ClientOutcomes :
          WriteAnswer(field, outcome)
    \/ \E field \in {"flow_l_h", "volume_l"} : RequestRefresh(field)
    \/ \E attr \in {"valve_open", "sleep_mode", "vacation_mode"}, target \in BOOLEAN :
          Turn(attr, target)
    \/ \E outcome \in ClientOutcomes : CommandAnswer(outcome)
    \/ TurnReturn

SpecHa == InitHa /\ [][NextHa]_vars

----------------------------------------------------------------------------
(* Claims about the retry/transport engine, under Spec *)

JudoMethods == {"_rest_request", "_fetch_json"}

InLoop(c) == req[c].pc \in {"loop", "inflight", "sleeping", "done"}

\* C1: whatever the callers of one client do concurrently, at most one HTTP
\* request has been started and has not yet finished.
C1_SingleFlight == active <= 1

\* a request is in flight while a second caller, using the other method of the
\* same JudoClient, is blocked on the gate
C1_Witness ==
    \E c, d \in Callers :
        /\ active = 1
        /\ req[c].pc = "inflight" /\ req[c].method = "_rest_request"
        /\ req[d].pc = "waiting" /\ req[d].method = "_fetch_json"

\* C2: an attempt answered with 401 or 403 ends the logical request at once with
\* the authentication error: the request is done, no attempt and no sleep follow
\* (the sleeps are those of the earlier 429 answers only).
C2_AuthRaisesAtOnce ==
    \A c \in Callers :
        req[c].last.status \in {401, 403} =>
            /\ req[c].pc = "done"
            /\ req[c].outcome = (IF req[c].method = "_request"
                                 THEN "ZewaAuthenticationError"
                                 ELSE "JudoAuthenticationError")
            /\ Len(req[c].sleeps) = req[c].attempt - 1

\* a 403 on the third attempt, after two 429 retries
C2_Witness ==
    \E c \in Callers :
        /\ req[c].last.status = 403
        /\ req[c].attempt = 3
        /\ Len(req[c].sleeps) = 2
        /\ req[c].outcome = "ZewaAuthenticationError"

\* C3: a JudoClient request whose JudoMaxAttempts attempts were all answered
\* with 429 raises JudoConnectionError (and does not return an empty result).
C3_ExhaustedRateLimitRaises ==
    \A c \in Callers :
        ( /\ req[c].method \in JudoMethods
          /\ req[c].pc = "done"
          /\ req[c].attempt = JudoMaxAttempts
          /\ req[c].last.status = 429 ) => req[c].outcome = "JudoConnectionError"

\* C4: within one logical request the backoff waits never decrease.
C4_WaitsNonDecreasing ==
    \A c \in Callers :
        \A i \in 1..Len(req[c].sleeps) :
            \A j \in 1..Len(req[c].sleeps) :
                i < j => req[c].sleeps[i] <= req[c].sleeps[j]

\* C5: while every 429 came without Retry-After, the i-th sleep is
\* min(2^i, maximum backoff); and when a 200 follows k such answers, the request
\* ends after k+1 attempts and k sleeps, successfully for a well-formed body.
C5_BackoffSchedule ==
    \A c \in Callers :
        req[c].plain =>
            /\ \A i \in 1..Len(req[c].sleeps) :
                   req[c].sleeps[i] = Min2(2^i, MaxDelay(req[c].method))
            /\ req[c].last.status = 200 =>
                   /\ req[c].pc = "done"
                   /\ req[c].attempt = Len(req[c].sleeps) + 1
                   /\ req[c].outcome \notin {"ZewaRateLimitError", "ZewaConnectionError",
                                             "JudoConnectionError"}
                   /\ (req[c].last.body = "hex4" /\ req[c].expect_len \in {-1, 4})
                          => req[c].outcome = "return"

\* five 429 answers without Retry-After, then a 200, on a budget of six
\* attempts: six attempts and the sleeps 2, 4, 8, 16, 30
C5_Witness ==
    \E c \in Callers :
        /\ req[c].plain
        /\ req[c].last.status = 200
        /\ req[c].method = "_request"
        /\ req[c].attempt = 6
        /\ req[c].sleeps = <<2, 4, 8, 16, 30>>
        /\ req[c].outcome = "return"

C7_RetryLoopExclusive ==
    \A c, d \in Callers :
        (c /= d /\ InLoop(c)) => req[d].pc \in {"idle", "waiting"}

\* a caller sleeps in backoff while another one waits for the gate
C7_Witness ==
    \E c, d \in Callers :
        /\ req[c].pc = "sleeping"
        /\ req[d].pc = "waiting"

\* C10: a JudoClient attempt answered with 404 or any other 4xx/5xx except 401,
\* 403 and 429 ends the request at once with the empty value ({} or None): no
\* error, no retry, no sleep; a first attempt answered so is the only one.
C10_SoftFailureReturnsEmpty ==
    \A c \in Callers :
        ( /\ req[c].method \in JudoMethods
          /\ req[c].last.kind = "http"
          /\ req[c].last.status >= 400
          /\ req[c].last.status \notin {401, 403, 429} ) =>
              /\ req[c].pc = "done"
              /\ req[c].outcome = "return"
              /\ req[c].value = EmptyValue(req[c].method)
              /\ Len(req[c].sleeps) = req[c].attempt - 1

\* a 500 on the only attempt of a _fetch_json, which returns None
C10_Witness ==
    \E c \in Callers :
        /\ req[c].method = "_fetch_json"
        /\ req[c].last.status = 500
        /\ req[c].attempt = 1
        /\ req[c].sleeps = <<>>
        /\ req[c].value = "None"

\* C17: a ZewaClient request whose max_attempts-th attempt is answered with 429
\* (as all the earlier ones were) ends there with ZewaRateLimitError: it made
\* max_attempts requests and slept max_attempts - 1 times, not after the last.
C17_ZewaRateLimitExhausted ==
    \A c \in Callers :
        ( /\ req[c].method = "_request"
          /\ req[c].attempt = max_attempts
          /\ req[c].pc /= "inflight"
          /\ req[c].last.status = 429 ) =>
              /\ req[c].pc = "done"
              /\ req[c].outcome = "ZewaRateLimitError"
              /\ Len(req[c].sleeps) = max_attempts - 1

\* the default budget: four attempts answered 429, three sleeps
C17_Witness ==
    \E c \in Callers :
        /\ req[c].method = "_request"
        /\ max_attempts = ZewaMaxAttempts
        /\ req[c].attempt = ZewaMaxAttempts
        /\ req[c].last.status = 429
        /\ req[c].sleeps = <<2, 4, 8>>
        /\ req[c].outcome = "ZewaRateLimitError"

\* C22: a ZewaClient attempt answered with a status of 400 or more other than
\* 401, 403 and 429 ends the logical request on that answer: with
\* ZewaInvalidCommandError for 400 and 500, with ZewaRequestError otherwise; no
\* attempt and no sleep follow it (the sleeps are those of earlier 429 answers
\* only, so a request that met no 429 made a single attempt).
C22_ErrorStatusRaisesAtOnce ==
    \A c \in Callers :
        ( /\ req[c].method = "_request"
          /\ req[c].last.kind = "http"
          /\ req[c].last.status >= 400
          /\ req[c].last.status \notin {401, 403, 429} ) =>
              /\ req[c].pc = "done"
              /\ req[c].outcome = (IF req[c].last.status \in {400, 500}
                                   THEN "ZewaInvalidCommandError"
                                   ELSE "ZewaRequestError")
              /\ Len(req[c].sleeps) = req[c].attempt - 1
              /\ req[c].sleeps = <<>> => req[c].attempt = 1

\* a first attempt answered 503 while the other caller waits for the gate
C22_Witness ==
    \E c, d \in Callers :
        /\ req[c].method = "_request"
        /\ req[c].last.status = 503
        /\ req[c].attempt = 1
        /\ req[c].outcome = "ZewaRequestError"
        /\ req[d].pc = "waiting"

\* C16: JudoClient._handle_rate_limit sleeps max(delay, 2, Retry-After) when
\* the header parses as a number and max(delay, 2) when it is absent or does not
\* parse, so never less than 2 and never less than the current delay; and the
\* delay it hands to the next round is min(2 x that wait, 30).
C16_RateLimitWait ==
    \A c \in Callers :
        (req[c].method \in JudoMethods /\ req[c].sleeps /= <<>>) =>
            LET wait == req[c].sleeps[Len(req[c].sleeps)]
                header == req[c].last.retry_after
            IN IF req[c].pc = "sleeping"
               THEN /\ header = "3" => wait = Max2(Max2(req[c].delay, 2), 3)
                    /\ header = "60" => wait = Max2(Max2(req[c].delay, 2), 60)
                    /\ header \in {"", "invalid"} => wait = Max2(req[c].delay, 2)
                    /\ wait >= 2
                    /\ wait >= req[c].delay
               ELSE req[c].delay = Min2(2 * wait, 30)

\* the second 429 carries "Retry-After: 3" when the current delay is 4: the
\* wait is 4
C16_Witness ==
    \E c \in Callers :
        /\ req[c].method = "_rest_request"
        /\ req[c].pc = "sleeping"
        /\ req[c].delay = 4
        /\ req[c].last.retry_after = "3"
        /\ req[c].sleeps = <<2, 4>>

----------------------------------------------------------------------------
(* Claims about the aggregator, under SpecAgg *)

\* C8: once a JSON endpoint fetch or a command read has failed with
\* JudoAuthenticationError or JudoConnectionError, the call is over: it raises
\* that same error, returns no snapshot, and the failed request is the last one
\* sent to the device in that poll cycle.
C8_FatalErrorAborts ==
    agg.fatal_at > 0 =>
        /\ agg.pc = "done"
        /\ agg.outcome = agg.fatal_exc
        /\ agg.snapshot = EmptyMap
        /\ Len(agg.sent) = agg.fatal_at

\* fetch_all: a read in the middle of the command reads fails on a timeout,
\* after the fifteen JSON endpoints and some reads went through
C8_Witness ==
    /\ agg.entry = "fetch_all"
    /\ agg.fatal_exc = "JudoConnectionError"
    /\ agg.fatal_at = Len(JsonPlan) + 6
    /\ agg.outcome = "JudoConnectionError"
    /\ agg.produced /= {}

\* C9: when exactly one command read fails with a non-fatal JudoApiError (and
\* none fails fatally), _collect_rest_data returns, and its result holds every
\* field of every read that yielded a value, as that read produced it.
C9_OneSoftFailureIsolated ==
    ( /\ agg.pc = "done"
      /\ agg.entry = "_collect_rest_data"
      /\ Cardinality(agg.soft_failed) = 1
      /\ agg.fatal_at = 0 ) =>
          /\ agg.outcome = "return"
          /\ Len(agg.sent) = Len(ReadPlan)
          /\ \A read \in agg.produced :
                 \A k \in Fields(read) :
                     k \in DOMAIN agg.snapshot /\ agg.snapshot[k] = read

\* the read of the device clock, in the middle, is the one that fails; the
\* fourteen others yield values
C9_Witness ==
    /\ agg.pc = "done"
    /\ agg.entry = "_collect_rest_data"
    /\ agg.soft_failed = {"read_device_time"}
    /\ Cardinality(agg.produced) = Len(ReadPlan) - 1
    /\ agg.outcome = "return"

----------------------------------------------------------------------------
(* Claims about teardown, under SpecClose *)

\* C11: the session is not closed under a request: when close() closed the
\* session while a caller held the single-flight gate, that caller's request
\* ends with the client's connection error.
C11_CloseWaitsOrRequestFails ==
    \A c \in Callers :
        (c \in session.under /\ req[c].pc = "done") =>
            req[c].outcome = "ZewaConnectionError"

----------------------------------------------------------------------------
(* Claims about the queue at the gate, under SpecQueue *)

\* C12: callers blocked on the gate are served in the order in which they began
\* to wait: when a caller has started its first HTTP attempt, every caller that
\* was queued before it has started its own first attempt already.
C12_FifoAdmission ==
    \A b \in Queuers : req[b].attempt >= 1 => req[b].ahead = {}

\* b began to wait behind a; a has been admitted and is about to make its first
\* attempt while b still waits
C12_Witness ==
    \E a, b \in Queuers :
        /\ a \in req[b].ahead
        /\ req[a].pc = "loop"
        /\ req[a].attempt = 0
        /\ req[b].pc = "waiting"

----------------------------------------------------------------------------
(* Claims about the poll cycle as the coordinator sees it, under SpecAgg *)

\* C13: when no JSON endpoint gave an object and no command read yielded a value,
\* not even a zero (and none failed fatally), fetch_all returns the empty map without raising,
\* and the coordinator ends that cycle with UpdateFailed, not with data.
C13_EmptyCycleIsFailedUpdate ==
    ( /\ agg.pc = "done"
      /\ agg.entry = "fetch_all"
      /\ agg.hits = 0
      /\ agg.produced = {}
      /\ agg.zeros = {}
      /\ agg.fatal_at = 0 ) =>
          /\ agg.outcome = "return"
          /\ agg.snapshot = EmptyMap
          /\ agg.update = "UpdateFailed"

\* all fifteen JSON endpoints were absent and all fifteen reads yielded nothing
C13_Witness ==
    /\ agg.pc = "done"
    /\ agg.entry = "fetch_all"
    /\ agg.hits = 0
    /\ Len(agg.sent) = Len(JsonPlan) + Len(ReadPlan)
    /\ Cardinality(agg.absent) = Len(ReadPlan)
    /\ agg.update = "UpdateFailed"

\* C14: in a fetch_all cycle the requests go out one after another in the
\* order meta endpoints, status endpoints, counters endpoints, command reads:
\* each JSON candidate once, also after a candidate of its group gave an object,
\* and the first read only after the last counters endpoint; a cycle that ends
\* by returning has sent them all (a cycle ended by an exception stops there).
C14_FetchOrder ==
    agg.entry = "fetch_all" =>
        /\ Len(agg.sent) <= Len(JsonPlan \o ReadPlan)
        /\ \A i \in 1..Len(agg.sent) : agg.sent[i] = (JsonPlan \o ReadPlan)[i]
        /\ agg.pc = "rest" => Len(agg.sent) >= Len(JsonPlan)
        /\ (agg.pc = "done" /\ agg.outcome = "return") =>
               Len(agg.sent) = Len(JsonPlan) + Len(ReadPlan)

\* the first meta endpoint gave an object, and the whole cycle went through
C14_Witness ==
    /\ agg.entry = "fetch_all"
    /\ agg.pc = "done"
    /\ agg.hits = 1
    /\ "meta.serial" \in DOMAIN agg.merged
    /\ DOMAIN agg.merged = {"meta.serial", "meta.model"}
    /\ Len(agg.sent) = Len(JsonPlan) + Len(ReadPlan)

\* C15: in the snapshot fetch_all returns, every key a command read stored
\* carries the value that read stored, whatever a JSON endpoint gave for the
\* same key and whatever _normalize derived for it.
C15_CommandReadsTakePrecedence ==
    ( /\ agg.pc = "done"
      /\ agg.entry = "fetch_all"
      /\ agg.outcome = "return" ) =>
          \A read \in agg.produced \cup agg.zeros :
              \A k \in Fields(read) :
                  /\ k \in DOMAIN agg.snapshot
                  /\ agg.snapshot[k] =
                         StoredValue(read, IF read \in agg.zeros THEN "zero" ELSE "value")

\* the counters endpoint gave a total and the read of the total gave zero:
\* _normalize derives total_water_m3 from the endpoint's total, and the
\* snapshot still carries the read's zero
C15_Witness ==
    /\ agg.pc = "done"
    /\ agg.entry = "fetch_all"
    /\ agg.outcome = "return"
    /\ "counters.total_water_l" \in DOMAIN agg.snapshot
    /\ agg.zeros = {"read_total_water"}
    /\ Normalize(DeepMerge(agg.merged, agg.rest_data))["total_water_m3"] = "derived"
    /\ agg.snapshot["total_water_m3"] = Zero

----------------------------------------------------------------------------
(* Claims about the command methods, under SpecCmd *)

\* the method has just run up to its raise or up to the gate
JustCalled == cmd.pc \in {"raised", "requesting"}

\* C18: JudoClient._rest_request called with a payload longer than 80 bytes
\* raises JudoApiError, and nothing is handed to the retry loop.
C18_OversizePayloadRejected ==
    ( /\ JustCalled
      /\ cmd.method = "_rest_request"
      /\ Len(cmd.args) > 80 ) =>
          /\ cmd.pc = "raised"
          /\ cmd.exc = "JudoApiError"
          /\ req[Commander].pc = "idle"

\* the value of lo..hi nearest to v
Nearest(lo, hi, v) == IF v < lo THEN lo ELSE IF v > hi THEN hi ELSE v

\* bytes i and i+1 of the payload hold the 16-bit limit nearest to v
HoldsLimit(i, v) ==
    /\ cmd.payload[i] \in 0..255
    /\ cmd.payload[i + 1] \in 0..255
    /\ cmd.payload[i] * 256 + cmd.payload[i + 1] = Nearest(0, 65535, v)

\* C19: a JudoClient write method never raises for an out-of-range integer; it
\* sends, for each argument, the value of the legal range nearest to it: sleep
\* hours 1..10, vacation type 0..3, micro-leak mode 0..2, slot and day 0..6,
\* hour 0..23, minute 0..59, each 16-bit limit 0..65535.
C19_WritesClamp ==
    (JustCalled /\ cmd.method \in JudoWrites) =>
        /\ cmd.pc = "requesting"
        /\ LET a == cmd.args
               p == cmd.payload
           IN CASE cmd.method = "write_sleep_duration" -> p = <<Nearest(1, 10, a[1])>>
                [] cmd.method = "write_vacation_type" -> p = <<Nearest(0, 3, a[1])>>
                [] cmd.method = "write_microleak_mode" -> p = <<Nearest(0, 2, a[1])>>
                [] cmd.method = "delete_absence_time" -> p = <<Nearest(0, 6, a[1])>>
                [] cmd.method = "write_absence_time" ->
                      p = <<Nearest(0, 6, a[1]), Nearest(0, 6, a[2]),
                            Nearest(0, 23, a[3]), Nearest(0, 59, a[4]),
                            Nearest(0, 6, a[5]), Nearest(0, 23, a[6]),
                            Nearest(0, 59, a[7])>>
                [] cmd.method = "write_absence_limits" ->
                      /\ Len(p) = 6
                      /\ HoldsLimit(1, a[1]) /\ HoldsLimit(3, a[2]) /\ HoldsLimit(5, a[3])
                [] OTHER ->
                      /\ Len(p) = 7
                      /\ p[1] = Nearest(0, 3, a[1])
                      /\ HoldsLimit(2, a[2]) /\ HoldsLimit(4, a[3]) /\ HoldsLimit(6, a[4])

\* write_absence_time with every argument but two outside its range
C19_Witness ==
    /\ cmd.pc = "requesting"
    /\ cmd.method = "write_absence_time"
    /\ cmd.args = <<7, -1, 24, 60, 6, 0, -1>>
    /\ cmd.payload = <<6, 0, 23, 59, 6, 0, 0>>
    /\ req[Commander].pc = "loop"

\* the legal range of the argument the ZewaClient methods check
ZewaLegal(method) ==
    CASE method = "set_sleep_hours" -> 1..10
      [] method = "set_vacation_type" -> 0..3
      [] method = "set_micro_leak_mode" -> 0..2
      [] OTHER -> 0..6

\* C20: a ZewaClient setter (and get_absence_window) called with its checked
\* argument outside the legal range raises ValueError; no request is made and
\* the caller neither holds the gate nor queues for it.
C20_ZewaRejectsOutOfRange ==
    ( /\ JustCalled
      /\ cmd.method \in ZewaSetters
      /\ cmd.args[1] \notin ZewaLegal(cmd.method) ) =>
          /\ cmd.pc = "raised"
          /\ cmd.exc = "ValueError"
          /\ holders = {}
          /\ waiters = <<>>
          /\ active = 0
          /\ req[Commander] = IdleFrame

\* delete_absence_window(7)
C20_Witness ==
    /\ cmd.pc = "raised"
    /\ cmd.method = "delete_absence_window"
    /\ cmd.args = <<7>>
    /\ cmd.exc = "ValueError"
    /\ holders = {}

\* C23: setting the device clock sends year - 2000 as the year byte for every
\* year from 2000 to 2255, and for a year outside that range the method raises
\* and hands nothing to the retry loop.
C23_ClockYearByte ==
    (JustCalled /\ cmd.method \in {"write_device_time", "set_clock"}) =>
        IF cmd.args[3] \in 2000..2255
        THEN /\ cmd.pc = "requesting"
             /\ cmd.payload[3] = cmd.args[3] - 2000
        ELSE /\ cmd.pc = "raised"
             /\ req[Commander].pc = "idle"

\* C30: a command that is sent with a payload is sent as the two hex digits of
\* its opcode followed by the payload; the opcode is padded with 00 only when
\* there is no payload.
C30_PayloadFollowsOpcode ==
    (cmd.pc = "requesting" /\ cmd.payload /= <<>>) => Len(cmd.command) = 2

----------------------------------------------------------------------------
(* Claims about ZewaClient's reads, under SpecRead *)

\* the read's request was answered with status 200 and a text of hex digits
AnsweredHex ==
    /\ cmd.pc = "finished"
    /\ cmd.last.kind = "http"
    /\ cmd.last.status = 200
    /\ ParseHexText(cmd.last.raw).act = "return"

\* C21: a fixed-width read whose 200 response decodes to a number of bytes
\* other than the expected one (none, fewer or more) raises ZewaResponseError
\* and yields no value.
C21_WrongLengthRejected ==
    ( /\ AnsweredHex
      /\ cmd.method \in FixedReads
      /\ Len(cmd.last.raw) \div 2 /= cmd.expect_len ) =>
          /\ cmd.outcome = "ZewaResponseError"
          /\ cmd.data = <<>>
          /\ cmd.values = 0

\* read_absence_limits, which expects six bytes, answered with five
C21_Witness ==
    /\ cmd.pc = "finished"
    /\ cmd.method = "zewa.read_absence_limits"
    /\ cmd.expect_len = 6
    /\ cmd.last.status = 200
    /\ Len(cmd.last.raw) = 10
    /\ cmd.outcome = "ZewaResponseError"

\* the part of a path after its "/api/rest/" prefix, as the caller wrote it
CommandPart(path) ==
    IF StartsWith(path, ApiRest) THEN SubSeq(path, Len(ApiRest) + 1, Len(path))
    ELSE SubSeq(path, Len(ApiRest), Len(path))

HasRestPrefix(path) == StartsWith(path, ApiRest) \/ StartsWith(path, Tail(ApiRest))

\* a command of odd length, of more than 80 bytes, with a character that is not
\* a hex digit of either case, or with a query part
Malformed(command) ==
    \/ Len(command) % 2 = 1
    \/ Len(command) > 160
    \/ \E i \in DOMAIN command :
          command[i] \notin HexChars \cup {"a", "b", "c", "d", "e", "f"}

\* C28: no HTTP request of ZewaClient carries a malformed command, and
\* _request called with a path whose command is malformed raises
\* ZewaInvalidCommandError without taking the gate and without any request.
C28_MalformedCommandNeverSent ==
    /\ (cmd.pc \in {"loop", "inflight"} \/ cmd.attempt > 0) =>
          /\ ~Malformed(cmd.command)
          /\ \A i \in DOMAIN cmd.command : cmd.command[i] \in HexChars
    /\ ( /\ cmd.pc /= "idle"
         /\ cmd.method = "_request"
         /\ HasRestPrefix(cmd.args[1])
         /\ Malformed(CommandPart(cmd.args[1])) ) =>
             /\ cmd.pc = "finished"
             /\ cmd.outcome = "ZewaInvalidCommandError"
             /\ cmd.attempt = 0
             /\ holders = {}
             /\ active = 0

\* _request called with a command of 81 bytes, all of them hex
C28_Witness ==
    /\ cmd.pc = "finished"
    /\ cmd.method = "_request"
    /\ cmd.args[1] = ApiRest \o Repeat(162, "0")
    /\ cmd.outcome = "ZewaInvalidCommandError"
    /\ cmd.attempt = 0
    /\ holders = {}

\* C29: get_day_stats, get_week_stats and get_year_stats raise
\* ZewaResponseError for every 200 response whose payload is not exactly 8, 7
\* and 12 four-byte values, also when its length is not a multiple of four; no
\* other exception leaves them for a payload of the wrong size.
C29_StatsWrongSizeRejected ==
    \A m \in {"get_day_stats", "get_week_stats", "get_year_stats"} :
        ( /\ AnsweredHex
          /\ cmd.method = m
          /\ Len(cmd.last.raw) \div 2 /=
                4 * (CASE m = "get_day_stats" -> 8
                       [] m = "get_week_stats" -> 7
                       [] OTHER -> 12) ) =>
              cmd.outcome = "ZewaResponseError"

----------------------------------------------------------------------------
(* Claims about the response parser, under SpecParse *)

\* C24: a body that is a JSON list whose first element is an object is parsed
\* to that first object.
C24_ListParsesToFirstObject ==
    (cmd.pc /= "text" /\ cmd.form = "list") =>
        cmd.parsed = MapOf({Word("data")}, cmd.hex)

----------------------------------------------------------------------------
(* Claims about the binary codec, under SpecCodec *)

\* C26: for every unsigned integer x of 8, 16 or 32 bits, decoding the
\* big-endian encoding of x gives x again, in zewa_client.hex and (16 and 32
\* bits) in the integration's helpers.
C26_RoundTrip ==
    (cmd.pc /= "value" /\ Fits(cmd.value, cmd.bits)) =>
        /\ cmd.pc = "encoded" => Len(cmd.bytes) = cmd.bits \div 8
        /\ cmd.pc = "decoded" => cmd.outcome = "return" /\ cmd.result = cmd.value

\* 2^32 - 257 = FF FF FE FF through the helpers and back
C26_Witness ==
    /\ cmd.pc = "decoded"
    /\ cmd.lib = "helpers"
    /\ cmd.bits = 32
    /\ cmd.value = <<65535, 65279>>
    /\ cmd.bytes = <<255, 255, 254, 255>>
    /\ cmd.result = cmd.value

----------------------------------------------------------------------------
(* Claims about the domain services, under SpecServices *)

\* C27: while every setup and unload completed successfully, the three domain
\* services are registered exactly when at least one entry is stored in
\* hass.data[DOMAIN], and the stored entries are the ones set up and not yet
\* unloaded: unloading the last entry removes the services, unloading any
\* other entry keeps them.
C27_ServicesIffEntryStored ==
    cmd.clean =>
        /\ cmd.services = (IF cmd.entries = {} THEN {} ELSE DomainServices)
        /\ cmd.entries = {e \in 1..NumEntries :
                            cmd.state[e] \in {"forwarding", "loaded", "unloading"}}

\* one of three loaded entries was unloaded and the services are still there
C27_Witness ==
    /\ cmd.clean
    /\ cmd.last = <<"unload", 1>>
    /\ cmd.state[1] = "not_loaded"
    /\ cmd.state[2] = "loaded"
    /\ cmd.entries = {2, 3}
    /\ cmd.services = DomainServices

----------------------------------------------------------------------------
(* Claims about the end of a logical request, under SpecQueue *)

\* C31: however a logical request ends (a result, an empty value, or any of the
\* errors), the step that ends it leaves the gate free, and only callers with a
\* request in progress ever hold the gate; so the caller that waited longest, or
\* a new one, can take it.
C31_GateFreeAfterEnd ==
    /\ [](\A c \in holders : req[c].pc \in {"loop", "inflight", "sleeping", "done"})
    /\ [][\A c \in DOMAIN req :
             (req[c].pc = "done" /\ req'[c].pc = "idle") =>
                 /\ holders' = {}
                 /\ (waiters' = <<>> => CanAcquire')]_vars

\* caller 3 queued behind caller 2 while caller 1 held the gate; caller 1's
\* request has ended and caller 2 now holds the gate
C31_Witness ==
    /\ req[1].pc = "idle"
    /\ req[2].pc = "loop"
    /\ req[2].attempt = 0
    /\ holders = {2}
    /\ req[3].pc = "waiting"
    /\ req[3].ahead = {2}

----------------------------------------------------------------------------
(* Claims about termination, under SpecLive *)

\* C32: when every HTTP attempt and every backoff sleep completes, a logical
\* request makes at most max_attempts attempts and at most max_attempts - 1
\* sleeps, and every caller that began one, whether it holds the gate or waits
\* for it, eventually has its result or its error.
C32_EveryRequestEnds ==
    /\ [](\A c \in Callers :
            LET limit == IF client = "zewa" THEN max_attempts ELSE JudoMaxAttempts
            IN req[c].attempt <= limit /\ Len(req[c].sleeps) <= limit - 1)
    /\ \A c \in Callers : (req[c].pc /= "idle") ~> (req[c].pc = "done")

\* a request that was answered 429 four times and succeeded on its fifth and
\* last attempt, while the other caller still waits for the gate
C32_Witness ==
    \E c, d \in Callers :
        /\ client = "judo"
        /\ req[c].pc = "done"
        /\ req[c].attempt = JudoMaxAttempts
        /\ Len(req[c].sleeps) = JudoMaxAttempts - 1
        /\ req[c].outcome = "return"
        /\ req[c].last.status = 200
        /\ req[d].pc = "waiting"

----------------------------------------------------------------------------
(* Claims about the size of the waits, under Spec *)

\* C33: every backoff wait that is slept is at most the maximum delay of its
\* client (30), whatever 429 answers and Retry-After headers came.
C33_WaitsCapped ==
    \A c \in Callers :
        \A i \in 1..Len(req[c].sleeps) :
            req[c].sleeps[i] <= MaxDelay(req[c].method)

----------------------------------------------------------------------------
(* Claims about what escapes fetch_all, under SpecAgg *)

\* C34: a call of fetch_all that has ended returned a snapshot or raised
\* JudoAuthenticationError or JudoConnectionError, whatever each endpoint
\* answered, valid JSON that is no object included.
C34_OnlyFatalErrorsEscape ==
    (agg.pc = "done" /\ agg.entry = "fetch_all") =>
        agg.outcome \in {"return", "JudoAuthenticationError", "JudoConnectionError"}

----------------------------------------------------------------------------
(* Claims about the ZEWA integration, under SpecHa *)

\* C35: once a read of a poll has failed with ZewaAuthenticationError and the
\* poll has raised ConfigEntryAuthFailed, no further read of that poll is sent.
C35_NoReadAfterAuthFailure ==
    cmd.poll.outcome = "ConfigEntryAuthFailed" => cmd.poll.idx = cmd.poll.raised_at

\* C36: when the set-value calls for the flow limit and for the volume limit
\* have both written successfully, the device holds both new values.
C36_BothLimitsWritten ==
    (\A f \in {"flow_l_h", "volume_l"} :
        cmd.set[f].pc \in {"written", "done"} /\ cmd.set[f].outcome = "return") =>
            cmd.device.flow_l_h = 100 /\ cmd.device.volume_l = 200

\* C37: a ZewaClient write method called with legal arguments never builds the
\* path of a read method, nor the path another write method builds from legal
\* arguments.
C37_PathsDistinct ==
    (client = "zewa" /\ cmd.pc = "requesting" /\ cmd.method /= "get_absence_window") =>
        LET path == RequestPath(cmd.command, cmd.payload) IN
        /\ \A read \in FixedReads \cup StatsReads : \A a \in ReadArgs(read) :
              LET p == ReadPrologue(read, a)
              IN p.act = "request" => p.path /= path
        /\ \A write \in (ZewaSetters \cup ZewaWrites) \ {cmd.method, "get_absence_window"} :
              \A a \in CmdArgs(write) :
                 LET p == ZewaSet(write, a)
                 IN p.act = "request" => RequestPath(p.command, p.payload) /= path

\* C38: the runtime state changes only in the step in which a switch command
\* returns, and then only the attribute of that switch, to the state asked
\* for; a command that raised leaves the attribute as it was, and no step of a
\* poll changes the runtime state.
C38_RuntimeChangesOnSuccessOnly ==
    /\ [](cmd.sw.pc = "done" /\ cmd.sw.outcome /= "return" =>
            cmd.runtime[cmd.sw.attr] = cmd.sw.before)
    /\ [][cmd'.runtime /= cmd.runtime =>
             /\ cmd.sw.pc = "command"
             /\ cmd'.sw.pc = "done"
             /\ cmd'.sw.outcome = "return"
             /\ cmd'.runtime = [cmd.runtime EXCEPT ![cmd.sw.attr] = cmd.sw.target]]_vars

\* the valve switch was turned on and stays on: a later turn_off raised, and a
\* poll has delivered data since
C38_Witness ==
    /\ cmd.sw.pc = "done"
    /\ cmd.sw.attr = "valve_open"
    /\ cmd.sw.target = FALSE
    /\ cmd.sw.before = TRUE
    /\ cmd.sw.outcome = "ZewaConnectionError"
    /\ cmd.runtime.valve_open = TRUE
    /\ cmd.poll.outcome = "data"

====
